---- MODULE Spec2Model ----
(***************************************************************************)
(* A model of the Confluence-export to Markdown converter: the recursive   *)
(* DOM dispatcher with its Processed Set, the table renderers, the         *)
(* Markdown cleanup pipeline and the batch driver.                         *)
(*                                                                         *)
(* Text is modelled character by character: a string is a sequence of      *)
(* one-character strings, so that trimming, splitting, escaping and the    *)
(* regular-expression passes are computed the way the code computes them.  *)
(***************************************************************************)
EXTENDS Integers, Sequences, FiniteSets, TLC

\* ------------------------------------------------------------------ bounds
\* Longest input string of the cleanup specification.
MaxLen == 3
\* Most entries of one input directory, and the depth of nested directories.
MaxEntries == 2
MaxDepth == 1
\* The tables of the table specification: rows per table, cells per row.
MaxRows == 2
MaxCells == 2
\* Most rows of a table of the classification specification.
MaxKindRows == 2
\* Most calls of processHeader and processLink in the heading specification.
MaxResolves == 2
\* Most li children of a list of the element specification.
MaxItems == 2
\* Most siblings before, and most after, the image of the image specification.
MaxSiblings == 1
\* Most HTML files of the batch of the output-path specification.
MaxFiles == 2
\* Most calls of ensureUniqueSlug on one usedSlugs set.
MaxSlugCalls == 4
\* Most lines of the text of the breadcrumb specification.
MaxNavLines == 3
\* Most lines of the text of the table-repair specification.
MaxTableLines == 3
\* Longest heading text of the slug specification.
MaxSlugLen == 3
\* Most rows of a table of the history specification.
MaxHistoryRows == 1
\* Most items of a list, and most child nodes of the cell, in the cell
\* specification.
MaxListItems == 5
MaxCellKids == 2
\* Most blocks in the main content of a document.
MaxBlocks == 2

VARIABLES
  bTree,    \* batch: the input directory, a sequence of entries (files and directories)
            \*   (output-path specification: the HTML files of the input directory)
  bStack,   \* batch: the active processDirectory calls, innermost last
            \*   (unique-slug specification: the calls of ensureUniqueSlug made so
            \*   far, with what each returned; output-path specification: the
            \*   files the loop has been through, each with its output path)
  bFiles,   \* batch: the output files: path -> the cleanup passes its text went through
            \*   (output-path specification: path -> the input files written to it)
  bPost,    \* batch: the output files postProcessMarkdownFiles has rewritten
            \*   (unique-slug and output-path specifications: usedSlugs)
  bpc,      \* batch: where run is: "idle" | "convert" | "assets" | "post" | "done" | "exit1"
            \*   (unique-slug specification: "slugs"; output-path specification:
            \*   "analyzed" | "directory" | "plan" | "write")
  cIn,      \* cleanup specification: the Markdown handed to cleanupMarkdown
            \*   (slug specification: the heading text handed to slugify; table-repair
            \*   specification: the Markdown handed to fixBrokenTables; breadcrumb
            \*   specification: the Markdown at the breadcrumb pass)
  cOut,     \* cleanup specification: cleanupMarkdown(cIn)
            \*   (slug specification: slugify(cIn); table-repair specification:
            \*   fixBrokenTables(cIn); breadcrumb specification: the text after
            \*   the breadcrumb pass)
  cOut2,    \* cleanup specification: cleanupMarkdown(cleanupMarkdown(cIn))
  cpc,      \* cleanup specification: "in" | "once" | "twice"
            \*   (slug specification: "in" | "slug"; table-repair specification:
            \*   "in" | "fixed"; breadcrumb specification: "in" | "nav")
  gDoc,       \* generateMarkdown: the parsed document
  gProcessed, \* generateMarkdown: processedElements, the set of nodes already processed
  gMarkdown,  \* generateMarkdown: the Markdown assembled so far
  gLog,       \* generateMarkdown: what the dispatcher decided for each element, in order
  gChild,     \* generateMarkdown: the index of the next child of the main content
  gpc,        \* generateMarkdown: "idle" | "start" | "metadata" | "main" | "attachments"
              \*   | "cleanup" | "returned" | "thrown"
  gFirst,     \* generateMarkdown: how an earlier call on the same document ended
  tDoc,     \* table specification: a document whose only element is a table
            \*   (image specification: the parent of an image; cell specification: a
            \*   table of one cell)
  tOut,     \* table specification: what processTable returned for the table
            \*   (image specification: what processImage returned for the image; cell
            \*   specification: what processTableCellContent returned for the cell)
  tpc       \* table specification: "idle" | "in" | "out"

batchVars == <<bTree, bStack, bFiles, bPost, bpc>>
cleanVars == <<cIn, cOut, cOut2, cpc>>
walkVars == <<gDoc, gProcessed, gMarkdown, gLog, gChild, gpc, gFirst>>
tableVars == <<tDoc, tOut, tpc>>
vars == <<bTree, bStack, bFiles, bPost, bpc, cIn, cOut, cOut2, cpc,
          gDoc, gProcessed, gMarkdown, gLog, gChild, gpc, gFirst, tDoc, tOut, tpc>>

\* Each specification runs one part of the program; the variables of the other
\* parts stay at these values.
BatchIdle == bTree = <<>> /\ bStack = <<>> /\ bFiles = <<>> /\ bPost = {} /\ bpc = "idle"
CleanIdle == cIn = <<>> /\ cOut = <<>> /\ cOut2 = <<>> /\ cpc = "idle"
\* No earlier call of generateMarkdown on the document.
NoRun == [pc |-> "none", md |-> <<>>]
WalkIdle ==
  /\ gDoc = <<>> /\ gProcessed = {} /\ gMarkdown = <<>> /\ gLog = <<>> /\ gChild = 0
  /\ gpc = "idle" /\ gFirst = NoRun
TableIdle == tDoc = <<>> /\ tOut = <<>> /\ tpc = "idle"

\* ------------------------------------------------------------ characters
NL == "\n"
\* The grave accent character (U+0060).
Tick == "GRAVE"
WsChars == {" ", "\n", "\t", "\r"}
UpperChars == {"A", "B", "C", "D", "E", "F", "G", "H", "I", "J", "K", "L", "M",
               "N", "O", "P", "Q", "R", "S", "T", "U", "V", "W", "X", "Y", "Z"}
LowerChars == {"a", "b", "c", "d", "e", "f", "g", "h", "i", "j", "k", "l", "m",
               "n", "o", "p", "q", "r", "s", "t", "u", "v", "w", "x", "y", "z"}
DigitChars == {"0", "1", "2", "3", "4", "5", "6", "7", "8", "9"}

\* All strings over the alphabet cs of length at most n.
RECURSIVE StrsUpTo(_, _)
StrsUpTo(cs, n) ==
  IF n = 0 THEN {<<>>}
  ELSE LET shorter == StrsUpTo(cs, n - 1)
       IN shorter \cup {Append(s, c) : s \in shorter, c \in cs}

\* All sequences over the set S of length at most n.
RECURSIVE SeqsUpTo(_, _)
SeqsUpTo(S, n) ==
  IF n = 0 THEN {<<>>}
  ELSE LET shorter == SeqsUpTo(S, n - 1)
       IN shorter \cup {Append(q, e) : q \in shorter, e \in S}

\* String.prototype.trim
RECURSIVE TrimStart(_)
TrimStart(s) ==
  IF s # <<>> /\ Head(s) \in WsChars THEN TrimStart(Tail(s)) ELSE s
RECURSIVE TrimEnd(_)
TrimEnd(s) ==
  IF s # <<>> /\ s[Len(s)] \in WsChars THEN TrimEnd(SubSeq(s, 1, Len(s) - 1)) ELSE s
Trim(s) == TrimEnd(TrimStart(s))

\* Concatenation of a sequence of strings.
RECURSIVE ConcatRange(_, _, _)
ConcatRange(ss, lo, hi) ==
  IF lo > hi THEN <<>>
  ELSE IF lo = hi THEN ss[lo]
  ELSE ConcatRange(ss, lo, (lo + hi) \div 2) \o ConcatRange(ss, ((lo + hi) \div 2) + 1, hi)
Concat(ss) == ConcatRange(ss, 1, Len(ss))

\* String.prototype.split(c) for a one-character separator.
RECURSIVE Split(_, _)
Split(s, c) ==
  IF \A i \in 1..Len(s) : s[i] # c THEN <<s>>
  ELSE LET i == CHOOSE j \in 1..Len(s) : s[j] = c /\ \A k \in 1..(j - 1) : s[k] # c
       IN <<SubSeq(s, 1, i - 1)>> \o Split(SubSeq(s, i + 1, Len(s)), c)
\* Array.prototype.join(sep)
RECURSIVE Join(_, _)
Join(ss, sep) ==
  IF ss = <<>> THEN <<>>
  ELSE IF Len(ss) = 1 THEN ss[1] ELSE ss[1] \o sep \o Join(Tail(ss), sep)
\* The number of occurrences of character c in s.
Count(s, c) == Cardinality({i \in 1..Len(s) : s[i] = c})
\* String.prototype.includes
Includes(s, sub) ==
  \E i \in 1..(Len(s) - Len(sub) + 1) : SubSeq(s, i, i + Len(sub) - 1) = sub
StartsWith(s, pre) == Len(s) >= Len(pre) /\ SubSeq(s, 1, Len(pre)) = pre
EndsWith(s, suf) == Len(s) >= Len(suf) /\ SubSeq(s, Len(s) - Len(suf) + 1, Len(s)) = suf

UpperSeq == <<"A", "B", "C", "D", "E", "F", "G", "H", "I", "J", "K", "L", "M",
              "N", "O", "P", "Q", "R", "S", "T", "U", "V", "W", "X", "Y", "Z">>
LowerSeq == <<"a", "b", "c", "d", "e", "f", "g", "h", "i", "j", "k", "l", "m",
              "n", "o", "p", "q", "r", "s", "t", "u", "v", "w", "x", "y", "z">>
\* String.prototype.toLowerCase
ToLowerCase(s) ==
  [i \in 1..Len(s) |->
     IF s[i] \in UpperChars THEN LowerSeq[CHOOSE k \in 1..26 : UpperSeq[k] = s[i]] ELSE s[i]]
\* parseInt(s, 10) of a string of digits (NaN, written -1, for anything else).
DigitSeq == <<"0", "1", "2", "3", "4", "5", "6", "7", "8", "9">>
RECURSIVE DigitsValue(_)
DigitsValue(s) ==
  IF s = <<>> THEN 0
  ELSE 10 * DigitsValue(SubSeq(s, 1, Len(s) - 1))
       + (CHOOSE k \in 0..9 : DigitSeq[k + 1] = s[Len(s)])
ParseInt(s) ==
  IF s # <<>> /\ \A i \in 1..Len(s) : s[i] \in DigitChars THEN DigitsValue(s) ELSE -1
\* String(n) for n >= 0
RECURSIVE NumberToString(_)
NumberToString(n) ==
  IF n < 10 THEN <<DigitSeq[n + 1]>> ELSE NumberToString(n \div 10) \o <<DigitSeq[(n % 10) + 1]>>

\* ------------------------------------------- regular expressions (JS RegExp)
\* A pattern is a tree: Chr (one literal character), Cls (a character class,
\* possibly negated), Bol and Eol (^ and $ under the m flag), Cat
\* (concatenation), Rep (a greedy or lazy quantifier), Grp (a capture group),
\* Look (a positive lookahead) and Ref (a back-reference).  M returns every way
\* the pattern can match at a position, in the order a backtracking matcher
\* tries them, so the head of the result is the match JavaScript reports.
Inf == 1000000
Chr(c) == [k |-> "chr", c |-> c]
Cls(cs) == [k |-> "cls", cs |-> cs, neg |-> FALSE]
NotCls(cs) == [k |-> "cls", cs |-> cs, neg |-> TRUE]
Dot == NotCls({"\n", "\r"})
Bol == [k |-> "bol"]
Eol == [k |-> "eol"]
\* ^ and $ without the m flag: the start and the end of the string.
Sos == [k |-> "sos"]
Eos == [k |-> "eos"]
Alt(x, y) == [k |-> "alt", x |-> x, y |-> y]
Cat(xs) == [k |-> "cat", xs |-> xs]
Rep(x, min, max) == [k |-> "rep", x |-> x, min |-> min, max |-> max, greedy |-> TRUE]
Lazy(x, min, max) == [k |-> "rep", x |-> x, min |-> min, max |-> max, greedy |-> FALSE]
Grp(n, x) == [k |-> "grp", n |-> n, x |-> x]
Look(x) == [k |-> "look", x |-> x]
Ref(n) == [k |-> "ref", n |-> n]
\* The literal string s as a pattern.
Lit(s) == Cat([i \in 1..Len(s) |-> Chr(s[i])])

NoCaps == <<<<0, 0>>, <<0, 0>>, <<0, 0>>>>
\* The text of capture group n in match state st (empty when unset).
CapText(s, st, n) ==
  IF st.caps[n] = <<0, 0>> THEN <<>> ELSE SubSeq(s, st.caps[n][1], st.caps[n][2])

RECURSIVE M(_, _, _), MCat(_, _, _, _), MRep(_, _, _, _)
M(re, s, st) ==
  CASE re.k = "chr" ->
         IF st.pos <= Len(s) /\ s[st.pos] = re.c
         THEN <<[st EXCEPT !.pos = @ + 1]>> ELSE <<>>
    [] re.k = "cls" ->
         IF st.pos <= Len(s) /\ ((s[st.pos] \in re.cs) # re.neg)
         THEN <<[st EXCEPT !.pos = @ + 1]>> ELSE <<>>
    [] re.k = "bol" ->
         IF st.pos = 1 \/ s[st.pos - 1] = NL THEN <<st>> ELSE <<>>
    [] re.k = "eol" ->
         IF st.pos = Len(s) + 1 \/ s[st.pos] = NL THEN <<st>> ELSE <<>>
    [] re.k = "sos" -> IF st.pos = 1 THEN <<st>> ELSE <<>>
    [] re.k = "eos" -> IF st.pos = Len(s) + 1 THEN <<st>> ELSE <<>>
    [] re.k = "alt" -> M(re.x, s, st) \o M(re.y, s, st)
    [] re.k = "cat" -> MCat(re.xs, 1, s, <<st>>)
    [] re.k = "rep" -> MRep(re, s, st, 0)
    [] re.k = "grp" ->
         LET Captured(rs) ==
               [i \in 1..Len(rs) |->
                  [rs[i] EXCEPT !.caps[re.n] = <<st.pos, rs[i].pos - 1>>]]
         IN Captured(M(re.x, s, st))
    [] re.k = "look" -> IF M(re.x, s, st) # <<>> THEN <<st>> ELSE <<>>
    [] re.k = "ref" ->
         LET Again(t) ==
               IF st.pos + Len(t) - 1 <= Len(s)
                  /\ SubSeq(s, st.pos, st.pos + Len(t) - 1) = t
               THEN <<[st EXCEPT !.pos = @ + Len(t)]>> ELSE <<>>
         IN Again(CapText(s, st, re.n))
MEach(re, s, sts) == Concat([i \in 1..Len(sts) |-> M(re, s, sts[i])])
MCat(xs, i, s, sts) ==
  IF i > Len(xs) \/ sts = <<>> THEN sts ELSE MCat(xs, i + 1, s, MEach(xs[i], s, sts))
MRepEach(re, s, sts, n) == Concat([i \in 1..Len(sts) |-> MRep(re, s, sts[i], n)])
\* A quantifier over one character: the run of matching characters at st.pos
\* is measured once, and the ways to match are the counts from the longest
\* allowed down to the minimum (greedy) or from the minimum up (lazy).
CharOk(x, c) == IF x.k = "chr" THEN c = x.c ELSE (c \in x.cs) # x.neg
\* The length of the run of characters from pos on that the one-character
\* pattern x accepts.
RunLength(x, s, pos) ==
  CHOOSE k \in 0..(Len(s) - pos + 1) :
    /\ k = Len(s) - pos + 1 \/ ~CharOk(x, s[pos + k])
    /\ \A j \in 0..(k - 1) : CharOk(x, s[pos + j])
MRepChar(re, s, st) ==
  LET States(hi) ==
        [i \in 1..(hi - re.min + 1) |->
           [st EXCEPT !.pos = IF re.greedy THEN st.pos + hi - i + 1
                              ELSE st.pos + re.min + i - 1]]
      Capped(run) == States(IF run < re.max THEN run ELSE re.max)
  IN Capped(RunLength(re.x, s, st.pos))
MRep(re, s, st, n) ==
  LET stop == IF n >= re.min THEN <<st>> ELSE <<>>
      Order(more) == IF re.greedy THEN more \o stop ELSE stop \o more
  IN IF re.x.k \in {"chr", "cls"} /\ n = 0 THEN MRepChar(re, s, st)
     ELSE Order(IF n < re.max
                THEN MRepEach(re, s, SelectSeq(M(re.x, s, st), LAMBDA o : o.pos > st.pos),
                              n + 1)
                ELSE <<>>)

\* A replacement template is a sequence of characters in which "$1", "$2",
\* "$3" stand for the text of a capture group.
RECURSIVE Expand(_, _, _)
Expand(tpl, s, st) ==
  IF tpl = <<>> THEN <<>>
  ELSE (CASE Head(tpl) = "$1" -> CapText(s, st, 1)
          [] Head(tpl) = "$2" -> CapText(s, st, 2)
          [] Head(tpl) = "$3" -> CapText(s, st, 3)
          [] OTHER -> <<Head(tpl)>>)
       \o Expand(Tail(tpl), s, st)

\* String.prototype.replace(re, tpl) with the g flag: the leftmost match from
\* each position on, replaced, and the scan resumed after the match.
\* ms holds, for every position of s, the ways the pattern matches there.
MatchAt(re, s, i) == M(re, s, [pos |-> i, caps |-> NoCaps])
AllMatches(re, s) == [j \in 1..(Len(s) + 1) |-> MatchAt(re, s, j)]
FirstHit(ms, i) ==
  IF \A j \in i..Len(ms) : ms[j] = <<>> THEN 0
  ELSE CHOOSE j \in i..Len(ms) : ms[j] # <<>> /\ \A k \in i..(j - 1) : ms[k] = <<>>
RECURSIVE ReplaceFrom(_, _, _, _), ReplaceAt(_, _, _, _, _)
ReplaceMatch(tpl, s, ms, i, j, m) ==
  SubSeq(s, i, j - 1) \o Expand(tpl, s, m)
  \o (IF m.pos = j
      THEN (IF j <= Len(s) THEN <<s[j]>> ELSE <<>>) \o ReplaceFrom(tpl, s, ms, j + 1)
      ELSE ReplaceFrom(tpl, s, ms, m.pos))
ReplaceFrom(tpl, s, ms, i) ==
  IF i > Len(s) + 1 THEN <<>> ELSE ReplaceAt(tpl, s, ms, i, FirstHit(ms, i))
\* j is the position of the first match from i on (0 when there is none).
ReplaceAt(tpl, s, ms, i, j) ==
  IF j = 0 THEN SubSeq(s, i, Len(s)) ELSE ReplaceMatch(tpl, s, ms, i, j, Head(ms[j]))
ReplaceAll(re, tpl, s) == ReplaceFrom(tpl, s, AllMatches(re, s), 1)
\* String.prototype.replace(re, tpl) without the g flag: the first match only.
ReplaceFirstAt(tpl, s, ms, j) ==
  IF j = 0 THEN s
  ELSE SubSeq(s, 1, j - 1) \o Expand(tpl, s, Head(ms[j])) \o SubSeq(s, Head(ms[j]).pos, Len(s))
ReplaceFirst(re, tpl, s) ==
  LET First(ms) == ReplaceFirstAt(tpl, s, ms, FirstHit(ms, 1))
  IN First(AllMatches(re, s))

\* ------------------------------------------------------- utilities.slugify
\* \w
WordChars == UpperChars \cup LowerChars \cup DigitChars \cup {"_"}
slugify(text) ==
  IF text = <<>> THEN <<>>
  ELSE ReplaceAll(Alt(Cat(<<Sos, Rep(Chr("-"), 1, Inf)>>), Cat(<<Rep(Chr("-"), 1, Inf), Eos>>)),
                  <<>>,
         Trim(ReplaceAll(Rep(Chr("-"), 1, Inf), <<"-">>,
                ReplaceAll(Rep(Cls(WsChars), 1, Inf), <<"-">>,
                  ReplaceAll(NotCls(WordChars \cup WsChars \cup {"-"}), <<>>,
                             ToLowerCase(text))))))

\* ----------------------------------------------- utilities.cleanupMarkdown
Hash == Chr("#")
Sp == Chr(" ")
Ws == Cls(WsChars)
NotWs == NotCls(WsChars)
NotNl == NotCls({"\n"})
ListMark == Cls({"-", "*", "+"})

\* FIRST PASS: question list patterns.
FirstPass ==
  <<
    \* /^## - ### /gm -> '- ### '
    [re |-> Cat(<<Bol, Lit(<<"#", "#", " ", "-", " ", "#", "#", "#", " ">>)>>),
     tpl |-> <<"-", " ", "#", "#", "#", " ">>],
    \* /^# - ### /gm -> '- ### '
    [re |-> Cat(<<Bol, Lit(<<"#", " ", "-", " ", "#", "#", "#", " ">>)>>),
     tpl |-> <<"-", " ", "#", "#", "#", " ">>],
    \* /^#{1,6} - /gm -> '- '
    [re |-> Cat(<<Bol, Rep(Hash, 1, 6), Lit(<<" ", "-", " ">>)>>),
     tpl |-> <<"-", " ">>]
  >>
\* SECOND PASS: one iteration of the heading-pattern loop.
HeadingPass ==
  <<
    \* /^# # ([^\n]+)$/gm -> '## $1'
    [re |-> Cat(<<Bol, Lit(<<"#", " ", "#", " ">>), Grp(1, Rep(NotNl, 1, Inf)), Eol>>),
     tpl |-> <<"#", "#", " ", "$1">>],
    \* /^# ## ([^\n]+)$/gm -> '## $1'
    [re |-> Cat(<<Bol, Lit(<<"#", " ", "#", "#", " ">>), Grp(1, Rep(NotNl, 1, Inf)), Eol>>),
     tpl |-> <<"#", "#", " ", "$1">>],
    \* /^## # ([^\n]+)$/gm -> '## $1'
    [re |-> Cat(<<Bol, Lit(<<"#", "#", " ", "#", " ">>), Grp(1, Rep(NotNl, 1, Inf)), Eol>>),
     tpl |-> <<"#", "#", " ", "$1">>],
    \* /^(#+)\s+(#+)\s+/gm -> '$1 '
    [re |-> Cat(<<Bol, Grp(1, Rep(Hash, 1, Inf)), Rep(Ws, 1, Inf),
        Grp(2, Rep(Hash, 1, Inf)), Rep(Ws, 1, Inf)>>),
     tpl |-> <<"$1", " ">>]
  >>
\* THIRD PASS: other specialized cleanup.
ThirdPass ==
  <<
    \* /\s+{#.*?}$/gm -> ''
    [re |-> Cat(<<Rep(Ws, 1, Inf), Lit(<<"{", "#">>), Lazy(Dot, 0, Inf), Chr("}"), Eol>>),
     tpl |-> <<>>],
    \* /^# ([A-Z][^#\n]+?)$/gm -> '## $1'
    [re |-> Cat(<<Bol, Lit(<<"#", " ">>),
        Grp(1, Cat(<<Cls(UpperChars), Lazy(NotCls({"#", "\n"}), 1, Inf)>>)), Eol>>),
     tpl |-> <<"#", "#", " ", "$1">>],
    \* /^- - /gm -> '  - '
    [re |-> Cat(<<Bol, Lit(<<"-", " ", "-", " ">>)>>),
     tpl |-> <<" ", " ", "-", " ">>],
    \* /^- # /gm -> '- '
    [re |-> Cat(<<Bol, Lit(<<"-", " ", "#", " ">>)>>),
     tpl |-> <<"-", " ">>],
    \* /^(#{3,})\s+/gm -> '### '
    [re |-> Cat(<<Bol, Grp(1, Rep(Hash, 3, Inf)), Rep(Ws, 1, Inf)>>),
     tpl |-> <<"#", "#", "#", " ">>]
  >>
\* FOURTH PASS, standard cleanup: line endings, blank lines, fences, headings.
FourthPassLines ==
  <<
    \* /\r\n/g -> '\n'
    [re |-> Lit(<<"\r", "\n">>),
     tpl |-> <<"\n">>],
    \* /\n{4,}/g -> '\n\n\n'
    [re |-> Rep(Chr("\n"), 4, Inf),
     tpl |-> <<"\n", "\n", "\n">>],
    \* /[fence]([^[tick]\n]*)\n\n/g -> '[fence]$1\n', where [fence] is three grave
    \* accents; the grave accent is written Tick here.
    [re |-> Cat(<<Lit(<<Tick, Tick, Tick>>), Grp(1, Rep(NotCls({Tick, "\n"}), 0, Inf)),
        Lit(<<"\n", "\n">>)>>),
     tpl |-> <<Tick, Tick, Tick, "$1", "\n">>],
    \* /^(#+) --/gm -> '$1'
    [re |-> Cat(<<Bol, Grp(1, Rep(Hash, 1, Inf)), Lit(<<" ", "-", "-">>)>>),
     tpl |-> <<"$1">>],
    \* /^0+$/gm -> ''
    [re |-> Cat(<<Bol, Rep(Chr("0"), 1, Inf), Eol>>),
     tpl |-> <<>>],
    \* /title: "([^"]*)"/g -> `title: "${title.replace(/\\"/g, '"')}"`: the group
    \* holds no double quote, so the inner replace finds nothing to change.
    [re |-> Cat(<<Lit(<<"t", "i", "t", "l", "e", ":", " ", "\"">>),
        Grp(1, Rep(NotCls({"\""}), 0, Inf)), Chr("\"")>>),
     tpl |-> <<"t", "i", "t", "l", "e", ":", " ", "\"", "$1", "\"">>],
    \* /^(#+)([^\s])/gm -> '$1 $2'
    [re |-> Cat(<<Bol, Grp(1, Rep(Hash, 1, Inf)), Grp(2, NotWs)>>),
     tpl |-> <<"$1", " ", "$2">>],
    \* /^(\s*[-*+].*)\n\n(?=\s*[-*+])/gm -> '$1\n'
    [re |-> Cat(<<Bol, Grp(1, Cat(<<Rep(Ws, 0, Inf), ListMark, Rep(Dot, 0, Inf)>>)),
        Lit(<<"\n", "\n">>), Look(Cat(<<Rep(Ws, 0, Inf), ListMark>>))>>),
     tpl |-> <<"$1", "\n">>],
    \* /([^\n])(\n#{1,6} )/g -> '$1\n\n$2'
    [re |-> Cat(<<Grp(1, NotNl), Grp(2, Cat(<<Chr("\n"), Rep(Hash, 1, 6), Sp>>))>>),
     tpl |-> <<"$1", "\n", "\n", "$2">>]
  >>
\* FOURTH PASS, standard cleanup: block quotes, details, images, tags, tables, rules.
FourthPassBlocks ==
  <<
    \* /(>.*\n)\n(?=>)/g -> '$1'
    [re |-> Cat(<<Grp(1, Cat(<<Chr(">"), Rep(Dot, 0, Inf), Chr("\n")>>)), Chr("\n"),
        Look(Chr(">"))>>),
     tpl |-> <<"$1">>],
    \* /<\/details>\s*<details>/g -> '</details>\n\n<details>'
    [re |-> Cat(<<Lit(<<"<", "/", "d", "e", "t", "a", "i", "l", "s", ">">>), Rep(Ws, 0, Inf),
        Lit(<<"<", "d", "e", "t", "a", "i", "l", "s", ">">>)>>),
     tpl |-> <<"<", "/", "d", "e", "t", "a", "i", "l", "s", ">", "\n", "\n",
        "<", "d", "e", "t", "a", "i", "l", "s", ">">>],
    \* />\s*\n>\s*\n/g -> '>\n>\n'
    [re |-> Cat(<<Chr(">"), Rep(Ws, 0, Inf), Chr("\n"), Chr(">"), Rep(Ws, 0, Inf), Chr("\n")>>),
     tpl |-> <<">", "\n", ">", "\n">>],
    \* /\(\.\/images\//g -> '(images/'
    [re |-> Lit(<<"(", ".", "/", "i", "m", "a", "g", "e", "s", "/">>),
     tpl |-> <<"(", "i", "m", "a", "g", "e", "s", "/">>],
    \* /<([a-z]+)>\s*<\/\1>/g -> ''
    [re |-> Cat(<<Chr("<"), Grp(1, Rep(Cls(LowerChars), 1, Inf)), Chr(">"), Rep(Ws, 0, Inf),
        Lit(<<"<", "/">>), Ref(1), Chr(">")>>),
     tpl |-> <<>>],
    \* /\|\s*\|/g -> '| |'
    [re |-> Cat(<<Chr("|"), Rep(Ws, 0, Inf), Chr("|")>>),
     tpl |-> <<"|", " ", "|">>],
    \* /^-{1,2}$/gm -> '---'
    [re |-> Cat(<<Bol, Rep(Chr("-"), 1, 2), Eol>>),
     tpl |-> <<"-", "-", "-">>],
    \* /(\n---\n)\n---\n/g -> '$1'
    [re |-> Cat(<<Grp(1, Lit(<<"\n", "-", "-", "-", "\n">>)), Lit(<<"\n", "-", "-", "-", "\n">>)>>),
     tpl |-> <<"$1">>]
  >>
\* FOURTH PASS, standard cleanup: links, entities, empty list items.
FourthPassInline ==
  <<
    \* /\[([^\]]*\[[^\]]*\][^\]]*)\]\(([^)]+)\)/g -> the link text: whatever group 1
    \* matches holds both '[' and ']', so the callback always returns the text.
    [re |-> Cat(<<Chr("["),
        Grp(1, Cat(<<Rep(NotCls({"]"}), 0, Inf), Chr("["), Rep(NotCls({"]"}), 0, Inf),
        Chr("]"), Rep(NotCls({"]"}), 0, Inf)>>)),
        Lit(<<"]", "(">>), Grp(2, Rep(NotCls({")"}), 1, Inf)), Chr(")")>>),
     tpl |-> <<"$1">>],
    \* /&nbsp;/g -> ' '
    [re |-> Lit(<<"&", "n", "b", "s", "p", ";">>), tpl |-> <<" ">>],
    \* /&amp;/g -> '&'
    [re |-> Lit(<<"&", "a", "m", "p", ";">>), tpl |-> <<"&">>],
    \* /&lt;/g -> '<'
    [re |-> Lit(<<"&", "l", "t", ";">>), tpl |-> <<"<">>],
    \* /&gt;/g -> '>'
    [re |-> Lit(<<"&", "g", "t", ";">>), tpl |-> <<">">>],
    \* /^(\s*[-*+])\s*$/gm -> '$1 '
    [re |-> Cat(<<Bol, Grp(1, Cat(<<Rep(Ws, 0, Inf), ListMark>>)), Rep(Ws, 0, Inf), Eol>>),
     tpl |-> <<"$1", " ">>]
  >>
\* FINAL CLEANUP PASS.
FinalPass ==
  <<
    \* /^# # /gm -> '## '
    [re |-> Cat(<<Bol, Lit(<<"#", " ", "#", " ">>)>>),
     tpl |-> <<"#", "#", " ">>],
    \* /^## - ### /gm -> '- ### ' (the final check repeats the first replacement)
    [re |-> Cat(<<Bol, Lit(<<"#", "#", " ", "-", " ", "#", "#", "#", " ">>)>>),
     tpl |-> <<"-", " ", "#", "#", "#", " ">>]
  >>

\* The replacements of cleanupMarkdown in the order the code applies them; the
\* second pass is a loop that runs its four replacements three times.
CleanupRules ==
  FirstPass \o HeadingPass \o HeadingPass \o HeadingPass \o ThirdPass
  \o FourthPassLines \o FourthPassBlocks \o FourthPassInline \o FinalPass

\* markdown = markdown.replace(...) for rules i, i+1, ... in turn.  Every
\* pattern consumes at least one character, so the empty string is left as
\* it is by all of them.
RECURSIVE ApplyRules(_, _, _)
ApplyRules(rules, i, s) ==
  IF i > Len(rules) \/ s = <<>> THEN s
  ELSE ApplyRules(rules, i + 1, ReplaceAll(rules[i].re, rules[i].tpl, s))

\* cleanupMarkdown: every replacement in its source order.  The try/catch
\* around them returns the input unchanged on an exception; no replacement
\* can throw on a string.
cleanupMarkdown(markdown) ==
  IF markdown = <<>> THEN <<>> ELSE ApplyRules(CleanupRules, 1, markdown)

\* ----------------------------------------------- utilities.fixBrokenTables
\* A line that starts and ends with a pipe once trimmed.
IsTableLine(line) == StartsWith(Trim(line), <<"|">>) /\ EndsWith(Trim(line), <<"|">>)
\* (line.match(/\|/g) || []).length - 1
ColumnCount(line) == Count(line, "|") - 1
\* '|' followed by n times ' --- |'
RECURSIVE SeparatorLine(_)
SeparatorLine(n) ==
  IF n <= 0 THEN <<"|">> ELSE SeparatorLine(n - 1) \o <<" ", "-", "-", "-", " ", "|">>
\* A row with too few columns: one ' |' (or ' | |') appended per missing column.
RECURSIVE PadLine(_, _, _)
PadLine(line, j, numColumns) ==
  IF j >= numColumns THEN line
  ELSE PadLine(IF EndsWith(line, <<"|">>) THEN line \o <<" ", "|">>
               ELSE line \o <<" ", "|", " ", "|">>, j + 1, numColumns)
\* A row with too many columns: split('|').slice(0, numColumns + 2).join('|')
TruncateLine(line, numColumns) ==
  LET parts == Split(line, "|")
  IN Join(SubSeq(parts, 1, IF numColumns + 2 < Len(parts) THEN numColumns + 2 ELSE Len(parts)),
          <<"|">>)
\* The loop over the lines: i is the index of the current line, inTable and
\* numColumns the loop's state; the result is what the iterations from i on push
\* to fixedLines.
RECURSIVE FixLines(_, _, _, _)
FixLines(lines, i, inTable, numColumns) ==
  IF i > Len(lines) THEN <<>>
  ELSE LET currentLine == lines[i]
       IN IF ~inTable /\ IsTableLine(currentLine)
          THEN LET n == ColumnCount(currentLine)
               IN IF i + 1 <= Len(lines) /\ Includes(lines[i + 1], <<"-", "-", "-">>)
                     /\ Includes(lines[i + 1], <<"|">>)
                  THEN <<currentLine, lines[i + 1]>> \o FixLines(lines, i + 2, TRUE, n)
                  ELSE <<currentLine, SeparatorLine(n)>> \o FixLines(lines, i + 1, TRUE, n)
          ELSE IF inTable /\ IsTableLine(currentLine)
          THEN LET columnCount == ColumnCount(currentLine)
                   fixedLine == IF columnCount = numColumns THEN currentLine
                                ELSE IF columnCount < numColumns
                                     THEN PadLine(currentLine, columnCount, numColumns)
                                     ELSE TruncateLine(currentLine, numColumns)
               IN <<fixedLine>> \o FixLines(lines, i + 1, TRUE, numColumns)
          ELSE IF inTable
          THEN (IF Trim(currentLine) # <<>> THEN <<<<>>, currentLine>> ELSE <<currentLine>>)
               \o FixLines(lines, i + 1, FALSE, 0)
          ELSE <<currentLine>> \o FixLines(lines, i + 1, FALSE, 0)
\* fixBrokenTables: split into lines, repair, join.  Nothing in the loop can
\* throw on a string, so the catch branch (return the input) is never taken.
fixBrokenTables(markdown) ==
  IF markdown = <<>> THEN <<>>
  ELSE Join(FixLines(Split(markdown, NL), 1, FALSE, 0), <<NL>>)

\* The cleanup pipeline as generateMarkdown and postProcessMarkdownFiles run it:
\* cleanupMarkdown, then fixBrokenTables.
cleanup(markdown) == fixBrokenTables(cleanupMarkdown(markdown))

\* ----------------------------------------------------------------- DOM
\* A document is the tree of its nodes as the HTML parser built it.  A node is
\* a text node (nt = 3) or an element (nt = 1) with its upper-case tag name, id,
\* class list, attributes (name/value pairs) and child nodes.  svg marks an
\* element of the SVG namespace: its className is an SVGAnimatedString object,
\* not a string, and its tagName is lower-case.  A node is identified by its
\* path, the sequence of child positions that leads to it from the root (BODY).
Tx(t) ==
  [nt |-> 3, tag |-> "#text", id |-> <<>>, cls |-> {}, at |-> {}, svg |-> FALSE,
   text |-> t, kids |-> <<>>]
El(tag, id, cls, at, kids) ==
  [nt |-> 1, tag |-> tag, id |-> id, cls |-> cls, at |-> at, svg |-> FALSE,
   text |-> <<>>, kids |-> kids]
SvgEl(tag, at, kids) ==
  [nt |-> 1, tag |-> tag, id |-> <<>>, cls |-> {}, at |-> at, svg |-> TRUE,
   text |-> <<>>, kids |-> kids]
\* The result of a query that finds no node.
NoNode == <<0>>

RECURSIVE At(_, _)
At(doc, p) == IF p = <<>> THEN doc ELSE At(doc.kids[Head(p)], Tail(p))
IsElement(doc, p) == At(doc, p).nt = 1
\* element.childNodes
ChildNodes(doc, p) == [i \in 1..Len(At(doc, p).kids) |-> Append(p, i)]
\* element.children
Children(doc, p) == SelectSeq(ChildNodes(doc, p), LAMBDA c : IsElement(doc, c))
\* The descendants of p in document order, p itself excluded.
RECURSIVE Descendants(_, _), DescendantsFrom(_, _, _)
Descendants(doc, p) == DescendantsFrom(doc, p, 1)
DescendantsFrom(doc, p, i) ==
  IF i > Len(At(doc, p).kids) THEN <<>>
  ELSE <<Append(p, i)>> \o Descendants(doc, Append(p, i)) \o DescendantsFrom(doc, p, i + 1)
\* element.querySelectorAll / querySelector for a selector given as a predicate
\* on paths.
QueryAll(doc, p, Matches(_)) ==
  SelectSeq(Descendants(doc, p), LAMBDA d : IsElement(doc, d) /\ Matches(d))
Query(doc, p, Matches(_)) ==
  LET all == QueryAll(doc, p, Matches) IN IF all = <<>> THEN NoNode ELSE all[1]
\* The proper ancestors of p, nearest first.
Ancestors(p) == [i \in 1..Len(p) |-> SubSeq(p, 1, Len(p) - i)]
\* element.closest(selector): the element itself or an ancestor.
HasClosest(doc, p, Matches(_)) ==
  Matches(p) \/ \E i \in 1..Len(p) : Matches(Ancestors(p)[i])
\* node.textContent
RECURSIVE TextContent(_), TextOfNodes(_, _)
TextContent(n) == IF n.nt = 3 THEN n.text ELSE TextOfNodes(n.kids, 1)
TextOfNodes(ks, i) ==
  IF i > Len(ks) THEN <<>> ELSE TextContent(ks[i]) \o TextOfNodes(ks, i + 1)
TextAt(doc, p) == TextContent(At(doc, p))

HasAttr(n, name) == \E a \in n.at : a[1] = name
\* getAttribute(name) || ""
Attr(n, name) == IF HasAttr(n, name) THEN (CHOOSE a \in n.at : a[1] = name)[2] ELSE <<>>
\* tagName compared as written: an SVG element's lower-case name never equals
\* an upper-case literal.
TagIs(n, tag) == n.nt = 1 /\ ~n.svg /\ n.tag = tag
\* tagName.toUpperCase() compared with an upper-case literal.
UpperTagIs(n, tag) == n.nt = 1 /\ n.tag = tag
HasClass(n, c) == n.nt = 1 /\ c \in n.cls
HeadingTags == {"H1", "H2", "H3", "H4", "H5", "H6"}

\* ------------------------------------------------- table classification
\* isHistoryTable
isHistoryTable(doc, p) ==
  LET table == At(doc, p)
      headerCells == QueryAll(doc, p, LAMBDA d :
                       \/ UpperTagIs(At(doc, d), "TH")
                       \/ /\ UpperTagIs(At(doc, d), "TD")
                          /\ \E i \in 1..Len(d) :
                               UpperTagIs(At(doc, Ancestors(d)[i]), "THEAD"))
      headers == {ToLowerCase(Trim(TextAt(doc, headerCells[i]))) : i \in 1..Len(headerCells)}
  IN \/ table.id = <<"p", "a", "g", "e", "-", "h", "i", "s", "t", "o", "r", "y", "-", "c", "o", "n", "t", "a", "i", "n", "e", "r">>
     \/ HasClass(table, "tableview")
     \/ /\ (<<"v", "e", "r", "s", "i", "o", "n">> \in headers \/ <<"v", ".">> \in headers)
        /\ (<<"c", "h", "a", "n", "g", "e", "d", " ", "b", "y">> \in headers \/ <<"p", "u", "b", "l", "i", "s", "h", "e", "d">> \in headers)
     \/ \E i \in 1..Len(p) :
          LET parent == At(doc, Ancestors(p)[i])
          IN \/ Includes(parent.id, <<"h", "i", "s", "t", "o", "r", "y">>)
             \/ Includes(parent.id, <<"v", "e", "r", "s", "i", "o", "n">>)
             \/ HasClass(parent, "history")
             \/ HasClass(parent, "expand-content")

\* isLayoutTable
isLayoutTable(doc, p) ==
  LET table == At(doc, p)
      inLayout == HasClosest(doc, p, LAMBDA a :
                    \E c \in {"contentLayout2", "columnLayout", "section", "panelContent"} :
                      HasClass(At(doc, a), c))
      firstCell == Query(doc, p, LAMBDA d : UpperTagIs(At(doc, d), "TD"))
      trs == QueryAll(doc, p, LAMBDA d : UpperTagIs(At(doc, d), "TR"))
      tds == QueryAll(doc, trs[1], LAMBDA d : UpperTagIs(At(doc, d), "TD"))
  IN \/ \E c \in {"layout", "contentLayoutTable", "layout-table"} : HasClass(table, c)
     \/ /\ inLayout
        /\ \/ Attr(table, "border") = <<"0">>
           \/ ~HasAttr(table, "border") /\ Attr(table, "border-style") = <<"n", "o", "n", "e">>
        /\ firstCell # NoNode
        /\ Query(doc, firstCell, LAMBDA d :
             At(doc, d).tag \in {"DIV", "TABLE", "UL", "OL", "P"} \cup HeadingTags) # NoNode
     \/ Attr(table, "border") = <<"0">>
     \/ /\ Len(trs) = 1
        /\ Len(tds) = 1
        /\ Query(doc, tds[1], LAMBDA d :
             At(doc, d).tag \in {"DIV", "TABLE", "UL", "OL", "P"}) # NoNode
     \/ HasClass(table, "wysiwyg-macro")

\* isComplexCell (the second of the two declarations, which is the one in effect)
isComplexCell(doc, p) ==
  \/ Query(doc, p, LAMBDA d :
       \/ At(doc, d).tag \in HeadingTags \cup {"IMG", "UL", "OL", "TABLE"}
       \/ HasClass(At(doc, d), "panel")
       \/ HasClass(At(doc, d), "confluence-information-macro")) # NoNode
  \/ Includes(Trim(TextAt(doc, p)), <<"\n", "\n">>)
\* isComplexTable
isComplexTable(doc, p) ==
  LET cells == QueryAll(doc, p, LAMBDA d : At(doc, d).tag \in {"TD", "TH"})
  IN \E i \in 1..Len(cells) : isComplexCell(doc, cells[i])
\* The length of cell text beyond which isComplexTableCell calls a cell complex.
LongCellText == 100
\* isComplexTableCell
isComplexTableCell(doc, p) ==
  \/ Query(doc, p, LAMBDA d :
       \/ At(doc, d).tag \in HeadingTags \cup {"IMG", "UL", "OL", "TABLE", "PRE", "BLOCKQUOTE"}
       \/ HasClass(At(doc, d), "panel")
       \/ HasClass(At(doc, d), "confluence-information-macro")) # NoNode
  \/ Len(Trim(TextAt(doc, p))) > LongCellText

\* ------------------------------------------------------- table renderers
\* The bullet character U+2022 that simplifyComplexCellContent writes.
Bullet == "BULLET"
\* .replace(/\s+/g, " ")
CollapseWhitespace(s) == ReplaceAll(Rep(Ws, 1, Inf), <<" ">>, s)
\* .replace(/\|/g, "\\|")
EscapePipes(s) == ReplaceAll(Chr("|"), <<"\\", "|">>, s)
\* .replace(/\n/g, " ")
NewlinesToSpaces(s) == [i \in 1..Len(s) |-> IF s[i] = "\n" THEN " " ELSE s[i]]

\* HTMLTableElement.rows: the rows of the THEAD children, then those of the
\* table itself and of its TBODY children in tree order, then those of the
\* TFOOT children.
TableRows(doc, p) ==
  LET RowsOf(c) == SelectSeq(Children(doc, c), LAMBDA r : UpperTagIs(At(doc, r), "TR"))
      Part(kids, tags) ==
        Concat([i \in 1..Len(kids) |->
                  IF At(doc, kids[i]).tag \in tags THEN RowsOf(kids[i])
                  ELSE IF At(doc, kids[i]).tag = "TR" /\ "TBODY" \in tags THEN <<kids[i]>>
                  ELSE <<>>])
      Rows(kids) == Part(kids, {"THEAD"}) \o Part(kids, {"TBODY"}) \o Part(kids, {"TFOOT"})
  IN Rows(Children(doc, p))
\* HTMLTableRowElement.cells
RowCells(doc, r) == SelectSeq(Children(doc, r), LAMBDA c : At(doc, c).tag \in {"TD", "TH"})
\* parseInt(cell.getAttribute("colspan") || "1", 10)
Colspan(cell) == IF Attr(cell, "colspan") = <<>> THEN 1 ELSE ParseInt(Attr(cell, "colspan"))

\* simplifyComplexCellContent (the later of the two declarations, which is the
\* one in effect)
SimplifiedList(doc, items) ==
  IF Len(items) <= 2
  THEN Join([i \in 1..Len(items) |-> <<Bullet, " ">> \o Trim(TextAt(doc, items[i]))], <<" ">>)
  ELSE <<"[", "L", "i", "s", "t", " ", "w", "i", "t", "h", " ">> \o NumberToString(Len(items)) \o <<" ", "i", "t", "e", "m", "s", "]">>
SimplifiedCell(doc, p, headings, images, lists, tables, panels) ==
  LET Alt2(alt) == <<"[">> \o (IF alt = <<>> THEN <<"i", "m", "a", "g", "e">> ELSE alt) \o <<"]">>
      Short(text) == IF Len(text) > 50 THEN SubSeq(text, 1, 47) \o <<".", ".", ".">> ELSE text
  IN IF headings # <<>> THEN <<"*", "*">> \o Trim(TextAt(doc, headings[1])) \o <<"*", "*">>
     ELSE IF images # <<>> THEN Alt2(Attr(At(doc, images[1]), "alt"))
     ELSE IF lists # <<>>
     THEN SimplifiedList(doc, QueryAll(doc, lists[1], LAMBDA d : At(doc, d).tag = "LI"))
     ELSE IF tables # <<>> THEN <<"[", "N", "e", "s", "t", "e", "d", " ", "t", "a", "b", "l", "e", "]">>
     ELSE IF panels # <<>> THEN <<"[", "P", "a", "n", "e", "l", " ", "c", "o", "n", "t", "e", "n", "t", "]">>
     ELSE Short(CollapseWhitespace(Trim(TextAt(doc, p))))
simplifyComplexCellContent(doc, p) ==
  SimplifiedCell(doc, p,
    QueryAll(doc, p, LAMBDA d : At(doc, d).tag \in HeadingTags),
    QueryAll(doc, p, LAMBDA d : At(doc, d).tag = "IMG"),
    QueryAll(doc, p, LAMBDA d : At(doc, d).tag \in {"UL", "OL"}),
    QueryAll(doc, p, LAMBDA d : At(doc, d).tag = "TABLE"),
    QueryAll(doc, p, LAMBDA d :
      HasClass(At(doc, d), "panel") \/ HasClass(At(doc, d), "confluence-information-macro")))

\* processTableCellContent: the loop over the cell's child nodes.
RECURSIVE CellChildren(_, _, _, _)
CellPiece(child, text, content) ==
  CASE child.nt = 3 -> child.text
    [] child.tag = "BR" -> <<" ">>
    [] child.tag = "A" -> <<"[">> \o text \o <<"]", "(">> \o Attr(child, "href") \o <<")">>
    [] child.tag \in {"STRONG", "B"} -> <<"*", "*">> \o text \o <<"*", "*">>
    [] child.tag \in {"EM", "I"} -> <<"*">> \o text \o <<"*">>
    [] child.tag = "CODE" -> <<Tick>> \o text \o <<Tick>>
    [] child.tag = "P" -> (IF content # <<>> THEN <<" ">> ELSE <<>>) \o text
    [] OTHER -> text
CellChildren(doc, ps, i, content) ==
  IF i > Len(ps) THEN content
  ELSE CellChildren(doc, ps, i + 1,
         content \o CellPiece(At(doc, ps[i]), Trim(TextAt(doc, ps[i])), content))
\* processTableCellContent.  Nothing in it throws on a parsed cell, so its catch
\* branch (return "") is never taken.
processTableCellContent(doc, p) ==
  IF isComplexTableCell(doc, p) THEN simplifyComplexCellContent(doc, p)
  ELSE EscapePipes(CollapseWhitespace(Trim(CellChildren(doc, ChildNodes(doc, p), 1, <<>>))))

\* safeTableCellContent
safeTableCellContent(content) ==
  IF content = <<>> THEN <<" ">>
  ELSE Trim(EscapePipes(NewlinesToSpaces(Trim(content))))

\* One source row of a Standard table: the cell texts, with a " " placeholder
\* for every further column a colspan covers.
StandardCells(doc, cells) ==
  Concat([i \in 1..Len(cells) |->
    <<safeTableCellContent(processTableCellContent(doc, cells[i]))>>
    \o [k \in 1..(Colspan(At(doc, cells[i])) - 1) |-> <<" ">>]])
StandardRowCells(doc, r) == StandardCells(doc, RowCells(doc, r))
\* Padding with " " or cutting to maxCols cells.
FitRow(cells, maxCols) ==
  [i \in 1..maxCols |-> IF i <= Len(cells) THEN cells[i] ELSE <<" ">>]
\* "|" + Array(maxCols).fill("---").join("|") + "|\n"
SeparatorRow(maxCols) ==
  <<"|">> \o Join([i \in 1..maxCols |-> <<"-", "-", "-">>], <<"|">>) \o <<"|", "\n">>
\* The loop that writes the rows: i is the index in allTableRows.
RECURSIVE EmitRows(_, _, _, _)
EmitRows(rows, i, headerProcessed, maxCols) ==
  LET line == <<"|", " ">> \o Join(rows[i].cells, <<" ", "|", " ">>) \o <<" ", "|", "\n">>
      Rest(sep) == line \o (IF sep THEN SeparatorRow(maxCols) ELSE <<>>)
                   \o EmitRows(rows, i + 1, headerProcessed \/ sep, maxCols)
  IN IF i > Len(rows) THEN <<>>
     ELSE IF \A c \in 1..Len(rows[i].cells) : Trim(rows[i].cells[c]) = <<>>
     THEN EmitRows(rows, i + 1, headerProcessed, maxCols)
     ELSE Rest((rows[i].type = "header" \/ i = 1) /\ ~headerProcessed /\ Len(rows) > 1)
\* The part of processTable that renders a regular table.  Rows already in the
\* processed set are skipped; every row and cell it renders is added to the set.
RECURSIVE SumColspans(_, _, _)
SumColspans(doc, cells, i) ==
  IF i > Len(cells) THEN 0 ELSE Colspan(At(doc, cells[i])) + SumColspans(doc, cells, i + 1)
RECURSIVE MaxOf(_)
MaxOf(ns) ==
  LET Larger(n, m) == IF n > m THEN n ELSE m
  IN IF ns = <<>> THEN 0 ELSE Larger(Head(ns), MaxOf(Tail(ns)))
StandardRows(doc, fresh) ==
  [i \in 1..Len(fresh) |->
     [type |-> IF QueryAll(doc, fresh[i], LAMBDA d : At(doc, d).tag = "TH") # <<>>
               THEN "header" ELSE "data",
      cells |-> StandardRowCells(doc, fresh[i])]]
\* The processed set after the rows: every row rendered and every cell of it.
StandardMarked(doc, pe, fresh) ==
  pe \cup {fresh[i] : i \in 1..Len(fresh)}
     \cup UNION {{RowCells(doc, fresh[i])[k] : k \in 1..Len(RowCells(doc, fresh[i]))} :
                 i \in 1..Len(fresh)}
\* The rendered rows that have cells, each padded or cut to maxCols cells.
StandardFitted(rows, maxCols) ==
  LET usable == SelectSeq(rows, LAMBDA r : r.cells # <<>>)
  IN [i \in 1..Len(usable) |-> [usable[i] EXCEPT !.cells = FitRow(@, maxCols)]]
StandardMarkdown(allTableRows, maxCols, marked) ==
  LET Close(markdown) ==
        [md |-> IF Trim(markdown) # <<>> THEN markdown \o <<"\n", "\n">> ELSE <<>>,
         pe |-> marked]
  IN IF allTableRows = <<>> THEN [md |-> <<>>, pe |-> marked]
     ELSE Close(<<"\n">> \o EmitRows(allTableRows, 1, FALSE, maxCols))
\* fresh are the rows not yet in the processed set.
StandardRender(doc, pe, fresh, maxCols) ==
  IF maxCols = 0 THEN [md |-> <<>>, pe |-> pe]
  ELSE StandardMarkdown(StandardFitted(StandardRows(doc, fresh), maxCols), maxCols,
                        StandardMarked(doc, pe, fresh))
StandardTable(doc, pe, htmlRows) ==
  StandardRender(doc, pe, SelectSeq(htmlRows, LAMBDA r : r \notin pe),
    MaxOf([i \in 1..Len(htmlRows) |-> SumColspans(doc, RowCells(doc, htmlRows[i]), 1)]))
processStandardTable(doc, p, pe) == StandardTable(doc, pe, TableRows(doc, p))

\* processHistoryTable: the text of one row's cells.
HistoryCellText(doc, c) == EscapePipes(NewlinesToSpaces(Trim(TextAt(doc, c))))
\* processHistoryTable: the four column texts from a row's cells.
HistoryCells(doc, cells) ==
  LET Local(src) == IF src # <<>> /\ ~StartsWith(src, <<"h", "t", "t", "p">>) /\ ~StartsWith(src, <<"/">>)
                       /\ ~StartsWith(src, <<".", "/">>)
                    THEN <<".", "/">> \o src ELSE src
      Version(cell, versionLink, plain) ==
        IF versionLink # NoNode
        THEN <<"[">> \o (IF Trim(TextAt(doc, versionLink)) # <<>>
                         THEN Trim(TextAt(doc, versionLink)) ELSE Trim(TextAt(doc, cell)))
             \o <<"]", "(">> \o Attr(At(doc, versionLink), "href") \o <<")">>
        ELSE plain
      IconAlt(alt) == IF alt = <<>> THEN <<"U", "s", "e", "r", " ", "i", "c", "o", "n">> ELSE alt
      Icon(userIcon) ==
        IF userIcon # NoNode
        THEN <<"!", "[">> \o IconAlt(Attr(At(doc, userIcon), "alt")) \o <<"]", "(">>
             \o Local(Attr(At(doc, userIcon), "src")) \o <<")", " ">>
        ELSE <<>>
      Name(userName, plain) ==
        IF userName # NoNode
        THEN (IF TagIs(At(doc, userName), "A")
              THEN <<"[">> \o Trim(TextAt(doc, userName)) \o <<"]", "(">>
                   \o Attr(At(doc, userName), "href") \o <<")">>
              ELSE Trim(TextAt(doc, userName)))
        ELSE plain
  IN <<Version(cells[1], Query(doc, cells[1], LAMBDA d : At(doc, d).tag = "A"),
               HistoryCellText(doc, cells[1])),
       HistoryCellText(doc, cells[2]),
       Trim(Icon(Query(doc, cells[3], LAMBDA d :
                   At(doc, d).tag = "IMG" /\ HasClass(At(doc, d), "userLogo")))
            \o Name(Query(doc, cells[3], LAMBDA d :
                      /\ \E i \in 1..Len(d) :
                           HasClass(At(doc, Ancestors(d)[i]), "page-history-contributor-name")
                      /\ \/ At(doc, d).tag = "A"
                         \/ At(doc, d).tag = "SPAN" /\ HasClass(At(doc, d), "unknown-user")),
                    HistoryCellText(doc, cells[3]))),
       IF Len(cells) > 3 THEN HistoryCellText(doc, cells[4]) ELSE <<>>>>
\* processHistoryTable: the text of one row's cells.
HistoryRowData(doc, tr) ==
  HistoryCells(doc, QueryAll(doc, tr, LAMBDA d : At(doc, d).tag = "TD"))
\* processHistoryTable: the loop over the rows; the result is the text of the
\* rows from i on and the processed set after them.
RECURSIVE HistoryRows(_, _, _, _)
HistoryRows(doc, rows, i, pe) ==
  LET Row(rowData, rest) ==
        [md |-> <<"|", " ">> \o Join(rowData, <<" ", "|", " ">>) \o <<" ", "|", "\n">> \o rest.md,
         pe |-> rest.pe]
  IN IF i > Len(rows) THEN [md |-> <<>>, pe |-> pe]
     ELSE IF rows[i] \in pe
             \/ Len(QueryAll(doc, rows[i], LAMBDA d : At(doc, d).tag = "TD")) < 3
     THEN HistoryRows(doc, rows, i + 1, pe)
     ELSE Row(HistoryRowData(doc, rows[i]), HistoryRows(doc, rows, i + 1, pe \cup {rows[i]}))
\* processHistoryTable.  Nothing in it throws on a parsed table, so its catch
\* branch (return "") is never taken.
HistoryRowsToProcess(doc, p) ==
  LET AfterHeader(trs) == SubSeq(trs, 2, Len(trs))
      Select(tbody) ==
        IF tbody # NoNode THEN QueryAll(doc, tbody, LAMBDA d : At(doc, d).tag = "TR")
        ELSE AfterHeader(QueryAll(doc, p, LAMBDA d : At(doc, d).tag = "TR"))
  IN Select(Query(doc, p, LAMBDA d : At(doc, d).tag = "TBODY"))
processHistoryTable(doc, p, pe) ==
  LET Body(rowsToProcess, body) ==
        IF Len(rowsToProcess) = 0 THEN [md |-> <<>>, pe |-> pe]
        ELSE [md |-> <<"\n", "#", "#", "#", " ", "P", "a", "g", "e", " ", "H", "i", "s", "t", "o", "r", "y", "\n", "\n">>
                     \o <<"|", " ", "V", "e", "r", "s", "i", "o", "n", " ", "|", " ", "P", "u", "b", "l", "i", "s", "h", "e", "d", " ", "|", " ", "C", "h", "a", "n", "g", "e", "d", " ", "B", "y", " ", "|", " ", "C", "o", "m", "m", "e", "n", "t", " ", "|", "\n">>
                     \o <<"|", "-", "-", "-", "|", "-", "-", "-", "|", "-", "-", "-", "|", "-", "-", "-", "|", "\n">> \o body.md \o <<"\n">>,
              pe |-> body.pe]
  IN Body(HistoryRowsToProcess(doc, p), HistoryRows(doc, HistoryRowsToProcess(doc, p), 1, pe))

\* --------------------------------------------------------- the dispatcher
\* What a call returns: the Markdown, the processed set as the call left it,
\* and whether the call threw instead of returning (md is then meaningless).
\* log records the dispatcher's decisions in the order it took them: for each
\* element it was called on, whether it dropped it ("drop"), found it already
\* processed ("skip") or ran its handler ("run"), whether the element was in
\* the processed set handed to the handler, the scope of the call, and whether
\* the call returned any Markdown (out).
Done(md, pe, log) == [md |-> md, pe |-> pe, log |-> log, err |-> FALSE]
Thrown(pe, log) == [md |-> <<>>, pe |-> pe, log |-> log, err |-> TRUE]
\* r2 is what ran after r1, starting from r1's processed set.
AndThen(r1, r2) ==
  [md |-> r1.md \o r2.md, pe |-> r2.pe, log |-> r1.log \o r2.log, err |-> r2.err]

\* parentPath is built by appending to the root label the caller of the walk
\* passed, so parentPath.includes("MAIN_CONTENT_ROOT") holds exactly when the
\* walk started from that label; the model keeps the root label only.
MainContentRoot == "MAIN_CONTENT_ROOT"
MetadataSection == "METADATA_SECTION"
InMainContent(parentPath) == parentPath = MainContentRoot

globallyExcludeClasses ==
  {"breadcrumb-section", "footer", "aui-nav", "pageSectionHeader", "hidden", "navigation",
   "screenreader-only", "hidden-xs", "hidden-sm", "aui-icon", "aui-avatar-inner",
   "expand-control"}
globallyExcludeIds ==
  {<<"b", "r", "e", "a", "d", "c", "r", "u", "m", "b", "s">>, <<"f", "o", "o", "t", "e", "r">>, <<"n", "a", "v", "i", "g", "a", "t", "i", "o", "n">>, <<"s", "i", "d", "e", "b", "a", "r">>, <<"p", "a", "g", "e", "-", "s", "i", "d", "e", "b", "a", "r">>, <<"h", "e", "a", "d", "e", "r">>,
   <<"a", "c", "t", "i", "o", "n", "s">>, <<"l", "i", "k", "e", "s", "-", "a", "n", "d", "-", "l", "a", "b", "e", "l", "s", "-", "c", "o", "n", "t", "a", "i", "n", "e", "r">>, <<"p", "a", "g", "e", "-", "m", "e", "t", "a", "d", "a", "t", "a", "-", "s", "e", "c", "o", "n", "d", "a", "r", "y">>}
\* shouldBeIgnored.  Its last branch is empty for a call outside the main
\* content and returns false inside it, so the scope changes nothing.
shouldBeIgnored(element, parentPath) ==
  \/ element.tag \in {"SCRIPT", "STYLE", "NOSCRIPT", "BUTTON"}
  \/ Attr(element, "aria-hidden") = <<"t", "r", "u", "e">>
  \/ Attr(element, "display") = <<"n", "o", "n", "e">>
  \/ Attr(element, "visibility") = <<"h", "i", "d", "d", "e", "n">>
  \/ ~element.svg /\ element.cls \cap globallyExcludeClasses # {}
  \/ element.id \in globallyExcludeIds
  \/ IF ~InMainContent(parentPath) THEN FALSE ELSE FALSE

MarkProcessedNever(pe, p) == pe
\* processedElements.add(element), before the switch on the tag.
MarkProcessed(pe, p) == pe \cup {p}

\* processImage
processImage(doc, p) ==
  LET img == At(doc, p)
      raw == Attr(img, "src")
      src == IF raw # <<>> /\ ~StartsWith(raw, <<"h", "t", "t", "p">>) /\ ~StartsWith(raw, <<"/">>)
                /\ ~StartsWith(raw, <<".", "/">>)
             THEN <<".", "/">> \o raw ELSE raw
      alt == IF Attr(img, "alt") = <<>> THEN <<"i", "m", "a", "g", "e">> ELSE Attr(img, "alt")
      title == Attr(img, "title")
      markdown == <<"!", "[">> \o alt \o <<"]", "(">> \o src
                  \o (IF title # <<>> THEN <<" ", "\"">> \o title \o <<"\"">> ELSE <<>>)
                  \o <<")">>
      parent == SubSeq(p, 1, Len(p) - 1)
      siblings == ChildNodes(doc, parent)
      onlySignificantChild ==
        \A i \in 1..Len(siblings) :
          \/ siblings[i] = p
          \/ At(doc, siblings[i]).nt = 3 /\ Trim(At(doc, siblings[i]).text) = <<>>
  IN IF p # <<>> /\ TagIs(At(doc, parent), "P") /\ onlySignificantChild
     THEN markdown \o <<"\n", "\n">> ELSE markdown

\* document.getElementById
GetElementById(doc, id) ==
  IF id = <<>> THEN NoNode
  ELSE IF doc.id = id THEN <<>>
  ELSE Query(doc, <<>>, LAMBDA d : At(doc, d).id = id)

RECURSIVE processElementContent(_, _, _, _), ProcessNodes(_, _, _, _, _),
          ProcessNodesCopied(_, _, _, _, _), LinkChildren(_, _, _, _, _),
          processTable(_, _, _, _), ListItems(_, _, _, _, _, _)

ProcessNodesFirstOnly(doc, ps, i, pe, parentPath) ==
  IF i > Len(ps) THEN Done(<<>>, pe, <<>>)
  ELSE processElementContent(doc, ps[i], pe, parentPath)
\* for (const child of nodes) markdown += processElementContent(child, ...),
\* every call on the same processed set.
ProcessNodes(doc, ps, i, pe, parentPath) ==
  LET Rest(r) == IF r.err THEN r
                 ELSE AndThen(r, ProcessNodes(doc, ps, i + 1, r.pe, parentPath))
  IN IF i > Len(ps) THEN Done(<<>>, pe, <<>>)
     ELSE Rest(processElementContent(doc, ps[i], pe, parentPath))
\* The same loop with new Set(processedElements) handed to every call: what a
\* call adds to its copy is lost when it returns.
ProcessNodesCopied(doc, ps, i, pe, parentPath) ==
  LET Rest(r) == IF r.err THEN [r EXCEPT !.pe = pe]
                 ELSE AndThen([r EXCEPT !.pe = pe],
                              ProcessNodesCopied(doc, ps, i + 1, pe, parentPath))
  IN IF i > Len(ps) THEN Done(<<>>, pe, <<>>)
     ELSE Rest(processElementContent(doc, ps[i], pe, parentPath))

\* processLink: the loop over the link's child nodes.
LinkChildren(doc, ps, i, pe, parentPath) ==
  LET Rest(r) == IF r.err THEN r
                 ELSE AndThen(r, LinkChildren(doc, ps, i + 1, r.pe, parentPath))
  IN IF i > Len(ps) THEN Done(<<>>, pe, <<>>)
     ELSE Rest(IF TagIs(At(doc, ps[i]), "IMG") THEN Done(processImage(doc, ps[i]), pe, <<>>)
               ELSE processElementContent(doc, ps[i], pe, parentPath))
\* processLink.  Its first statement calls link.className.trim(), which throws a
\* TypeError for an SVG element, whose className is not a string.
LinkHref(doc, raw, text, target) ==
  LET isHeaderOrToc ==
        \/ \E h \in HeadingTags : TagIs(At(doc, target), h)
        \/ HasClosest(doc, target, LAMBDA a : Attr(At(doc, a), "data-macro-name") = <<"t", "o", "c">>)
      SlugText(headerTextForSlug) ==
        IF headerTextForSlug # <<>> THEN headerTextForSlug ELSE SubSeq(raw, 2, Len(raw))
  IN IF StartsWith(raw, <<"#">>) /\ text # <<>> /\ target # NoNode
     THEN (IF isHeaderOrToc THEN <<"#">> \o slugify(SlugText(Trim(TextAt(doc, target))))
           ELSE <<"#">> \o At(doc, target).id)
     ELSE raw
\* processLink: the link written from the text of its children and its href.
LinkMarkdown(r, text, href) ==
  LET shown == IF text = <<>> /\ href # <<>> THEN href ELSE text
  IN IF shown = <<>> THEN Done(<<>>, r.pe, r.log)
     ELSE Done(<<"[">> \o shown \o <<"]", "(">> \o href \o <<")">>, r.pe, r.log)
\* processLink: r is the result of the loop over the link's child nodes.
LinkRender(doc, p, r) ==
  LET raw == Attr(At(doc, p), "href")
  IN IF r.err THEN r
     ELSE LinkMarkdown(r, Trim(r.md),
            LinkHref(doc, raw, Trim(r.md), GetElementById(doc, SubSeq(raw, 2, Len(raw)))))
processLink(doc, p, pe, parentPath) ==
  IF At(doc, p).svg THEN Thrown(pe, <<>>)
  ELSE LinkRender(doc, p, LinkChildren(doc, ChildNodes(doc, p), 1, pe, parentPath))

\* processPanel
PanelClose(title, body) ==
  LET TitleMd(titleText) ==
        IF titleText # <<>> THEN <<"*", "*">> \o titleText \o <<"*", "*", "\n", "\n">> ELSE <<>>
      trimmed == Trim(TitleMd(Trim(title.md)) \o body.md)
  IN IF body.err THEN [body EXCEPT !.log = title.log \o @]
     ELSE Done(IF trimmed # <<>>
               THEN <<">", " ">> \o ReplaceAll(Chr("\n"), <<"\n", ">", " ">>, trimmed)
                    \o <<"\n", "\n">>
               ELSE <<>>,
               body.pe, title.log \o body.log)
\* processPanel: title is the result for the title element's child nodes,
\* nodes the child nodes that make the body.
PanelBody(doc, nodes, parentPath, title) ==
  IF title.err THEN title
  ELSE PanelClose(title, ProcessNodes(doc, nodes, 1, title.pe, parentPath))
processPanel(doc, p, pe, parentPath) ==
  LET panelTitleElement == Query(doc, p, LAMBDA d :
        \E c \in {"panelHeader", "panel-header", "aui-message-header"} : HasClass(At(doc, d), c))
      panelContentElement == Query(doc, p, LAMBDA d :
        \E c \in {"panelContent", "panel-body", "aui-message-content"} : HasClass(At(doc, d), c))
      nodes ==
        SelectSeq(ChildNodes(doc, IF panelContentElement # NoNode THEN panelContentElement
                                  ELSE p),
                  LAMBDA c : ~(c = panelTitleElement /\ panelContentElement # NoNode))
  IN PanelBody(doc, nodes, parentPath,
       IF panelTitleElement = NoNode THEN Done(<<>>, pe, <<>>)
       ELSE ProcessNodes(doc, ChildNodes(doc, panelTitleElement), 1, pe, parentPath))

\* processLayout
processLayout(doc, p, pe, parentPath) ==
  ProcessNodes(doc, ChildNodes(doc, p), 1, pe, parentPath)

\* processDiv
processDiv(doc, p, pe, parentPath) ==
  LET div == At(doc, p)
  IN IF HasClass(div, "toc-macro") \/ HasClass(div, "expand-content")
     THEN ProcessNodes(doc, ChildNodes(doc, p), 1, pe, parentPath)
     ELSE IF \E c \in {"panel", "aui-message", "confluence-information-macro"} : HasClass(div, c)
     THEN processPanel(doc, p, pe, parentPath)
     ELSE IF \E c \in {"contentLayout", "columnLayout", "section", "cell", "innerCell",
                       "layout-column", "contentLayout2"} : HasClass(div, c)
     THEN processLayout(doc, p, pe, parentPath)
     ELSE ProcessNodes(doc, ChildNodes(doc, p), 1, pe, parentPath)

\* cleanupSectionContent
SectionRules ==
  <<
    \* /^(\s*[-*])\s+[-*]\s+/gm -> '$1   * '
    [re |-> Cat(<<Bol, Grp(1, Cat(<<Rep(Ws, 0, Inf), ListMark>>)), Rep(Ws, 1, Inf), ListMark,
                  Rep(Ws, 1, Inf)>>),
     tpl |-> <<"$1", " ", " ", " ", "*", " ">>],
    \* /^(\s*[-*])\s+(#{1,6})\s+/gm -> '$1 **'
    [re |-> Cat(<<Bol, Grp(1, Cat(<<Rep(Ws, 0, Inf), ListMark>>)), Rep(Ws, 1, Inf),
                  Grp(2, Rep(Hash, 1, 6)), Rep(Ws, 1, Inf)>>),
     tpl |-> <<"$1", " ", "*", "*">>],
    \* /^(\s*[-*]\s+)#{1,6}(.+?)$/gm -> '$1**$2**'
    [re |-> Cat(<<Bol, Grp(1, Cat(<<Rep(Ws, 0, Inf), ListMark, Rep(Ws, 1, Inf)>>)),
                  Rep(Hash, 1, 6), Grp(2, Lazy(Dot, 1, Inf)), Eol>>),
     tpl |-> <<"$1", "*", "*", "$2", "*", "*">>],
    \* /^(\s*[-*].+\n)(#+\s+)/gm -> '$1\n$2'
    [re |-> Cat(<<Bol, Grp(1, Cat(<<Rep(Ws, 0, Inf), ListMark, Rep(Dot, 1, Inf), Chr("\n")>>)),
                  Grp(2, Cat(<<Rep(Hash, 1, Inf), Rep(Ws, 1, Inf)>>))>>),
     tpl |-> <<"$1", "\n", "$2">>],
    \* /^#+\s*#+\s+/gm -> '### '
    [re |-> Cat(<<Bol, Rep(Hash, 1, Inf), Rep(Ws, 0, Inf), Rep(Hash, 1, Inf), Rep(Ws, 1, Inf)>>),
     tpl |-> <<"#", "#", "#", " ">>],
    \* /^(\s*)[-*]\s+[-*]\s+/gm -> '$1- '
    [re |-> Cat(<<Bol, Grp(1, Rep(Ws, 0, Inf)), ListMark, Rep(Ws, 1, Inf), ListMark,
                  Rep(Ws, 1, Inf)>>),
     tpl |-> <<"$1", "-", " ">>],
    \* /^-\s+/gm -> '- '
    [re |-> Cat(<<Bol, Chr("-"), Rep(Ws, 1, Inf)>>),
     tpl |-> <<"-", " ">>],
    \* /^(\s*[-*]\s+)(?=.*? \*\*)/gm -> '$1'
    [re |-> Cat(<<Bol, Grp(1, Cat(<<Rep(Ws, 0, Inf), ListMark, Rep(Ws, 1, Inf)>>)),
                  Look(Cat(<<Lazy(Dot, 0, Inf), Lit(<<" ", "*", "*">>)>>))>>),
     tpl |-> <<"$1">>]
  >>
cleanupSectionContent(content) == ApplyRules(SectionRules, 1, content)

\* processTableAsSections: the section title made of the first cell's output.
SectionTitle(md) ==
  LET Close(t3) == IF t3 # <<>> /\ t3 # <<"#", "#">> THEN t3 \o <<"\n", "\n">> ELSE <<>>
      Prefixed(t2) == Close(IF ~StartsWith(t2, <<"#">>) THEN <<"#", "#", " ">> \o t2 ELSE t2)
  IN Prefixed(ReplaceFirst(Cat(<<Sos, Rep(Hash, 1, Inf), Rep(Ws, 1, Inf)>>), <<"#", "#", " ">>,
                ReplaceFirst(Cat(<<Sos, Rep(Hash, 1, Inf), Rep(Ws, 0, Inf), Rep(Hash, 1, Inf),
                                   Rep(Ws, 1, Inf)>>), <<"#", "#", " ">>, Trim(md))))

\* processTableAsSections: the loop over cells[1..] of one row.
RECURSIVE SectionCells(_, _, _, _, _)
SectionCell(r) ==
  LET Out(cellContent) == IF cellContent # <<>> THEN cellContent \o <<"\n", "\n">> ELSE <<>>
  IN IF r.err THEN r ELSE [r EXCEPT !.md = Out(Trim(cleanupSectionContent(r.md)))]
SectionCells(doc, cells, i, pe, parentPath) ==
  LET Rest(r) == IF r.err THEN r
                 ELSE AndThen(r, SectionCells(doc, cells, i + 1, pe, parentPath))
  IN IF i > Len(cells) THEN Done(<<>>, pe, <<>>)
     ELSE IF ChildNodes(doc, cells[i]) = <<>> THEN SectionCells(doc, cells, i + 1, pe, parentPath)
     ELSE Rest(SectionCell(ProcessNodesCopied(doc, ChildNodes(doc, cells[i]), 1, pe,
                                              parentPath)))
\* processTableAsSections: the loop over the table's rows.
RECURSIVE SectionRows(_, _, _, _, _)
SectionRowFrom(doc, cells, pe, parentPath, title) ==
  IF title.err THEN title
  ELSE AndThen([title EXCEPT !.md = SectionTitle(title.md)],
               SectionCells(doc, cells, 2, pe, parentPath))
\* processTableAsSections: one row that has cells, the first cell as the title.
SectionRow(doc, cells, pe, parentPath) ==
  SectionRowFrom(doc, cells, pe, parentPath,
                 ProcessNodesCopied(doc, ChildNodes(doc, cells[1]), 1, pe, parentPath))
SectionRows(doc, rows, i, pe, parentPath) ==
  LET Next2(row) ==
        IF row.err THEN row
        ELSE AndThen(row, SectionRows(doc, rows, i + 1, pe \cup {rows[i]}, parentPath))
  IN IF i > Len(rows) THEN Done(<<>>, pe, <<>>)
     ELSE IF rows[i] \in pe THEN SectionRows(doc, rows, i + 1, pe, parentPath)
     ELSE IF Len(RowCells(doc, rows[i])) = 0
     THEN SectionRows(doc, rows, i + 1, pe \cup {rows[i]}, parentPath)
     ELSE Next2(SectionRow(doc, RowCells(doc, rows[i]), pe \cup {rows[i]}, parentPath))
\* processTableAsSections: whatever is thrown inside is caught and the table
\* then contributes nothing.
processTableAsSections(doc, p, pe, parentPath) ==
  LET Close(r) == IF r.err THEN Done(<<>>, r.pe, r.log) ELSE Done(<<"\n">> \o r.md, r.pe, r.log)
  IN Close(SectionRows(doc, TableRows(doc, p), 1, pe, parentPath))

\* processLayoutTableContent: the cells of all rows in document order, each
\* followed by a newline.
RECURSIVE LayoutCells(_, _, _, _, _)
LayoutCells(doc, cells, i, pe, parentPath) ==
  LET Rest(r) == IF r.err THEN r
                 ELSE AndThen([r EXCEPT !.md = @ \o <<"\n">>],
                              LayoutCells(doc, cells, i + 1, r.pe, parentPath))
  IN IF i > Len(cells) THEN Done(<<>>, pe, <<>>)
     ELSE Rest(ProcessNodes(doc, ChildNodes(doc, cells[i]), 1, pe, parentPath))
processLayoutTableContent(doc, p, pe, parentPath) ==
  LET Close(r) ==
        IF r.err THEN Done(<<>>, r.pe, r.log)
        ELSE Done(IF Trim(r.md) # <<>> THEN r.md \o <<"\n">> ELSE <<>>, r.pe, r.log)
      Cells(rows) == Concat([i \in 1..Len(rows) |-> RowCells(doc, rows[i])])
  IN Close(LayoutCells(doc, Cells(TableRows(doc, p)), 1, pe, parentPath))

TableKindLayoutFirst(doc, p) ==
  IF isLayoutTable(doc, p) THEN "Layout"
  ELSE IF isHistoryTable(doc, p) THEN "History"
  ELSE IF isComplexTable(doc, p) THEN "ComplexSections"
  ELSE "Standard"
\* processTable: History, then Layout, then ComplexSections, then Standard;
\* the whole body is inside one try whose catch returns "".
TableKind(doc, p) ==
  IF isHistoryTable(doc, p) THEN "History"
  ELSE IF isLayoutTable(doc, p) THEN "Layout"
  ELSE IF isComplexTable(doc, p) THEN "ComplexSections"
  ELSE "Standard"
processTableAs(kind, doc, p, pe, parentPath) ==
  LET Plain(r) == Done(r.md, r.pe, <<>>)
  IN CASE kind = "History" -> Plain(processHistoryTable(doc, p, pe))
       [] kind = "Layout" -> processLayoutTableContent(doc, p, pe, parentPath)
       [] kind = "ComplexSections" -> processTableAsSections(doc, p, pe, parentPath)
       [] OTHER -> Plain(processStandardTable(doc, p, pe))
processTable(doc, p, pe, parentPath) == processTableAs(TableKind(doc, p), doc, p, pe, parentPath)

\* The UL and OL cases: one line per LI child, continuation lines indented
\* by two columns (UL) or three (OL); n is the number of the next OL item.
ItemLines(lines, i, indent) ==
  Concat([k \in 1..(Len(lines) - i + 1) |->
           IF Trim(lines[k + i - 1]) # <<>> THEN indent \o lines[k + i - 1] \o <<"\n">>
           ELSE <<"\n">>])
ListItemFlat(itemContent, mark, indent) == mark \o itemContent \o <<"\n">>
ListItem(itemContent, mark, indent) ==
  IF Includes(itemContent, <<"\n">>)
  THEN LET lines == Split(itemContent, "\n")
       IN mark \o lines[1] \o <<"\n">> \o ItemLines(lines, 2, indent)
  ELSE mark \o itemContent \o <<"\n">>
ListItems(doc, lis, i, pe, parentPath, ordered) ==
  LET mark == IF ordered THEN NumberToString(i) \o <<".", " ">> ELSE <<"-", " ">>
      indent == IF ordered THEN <<" ", " ", " ">> ELSE <<" ", " ">>
      Rest(r) ==
        IF r.err THEN r
        ELSE AndThen([r EXCEPT !.md = ListItem(Trim(r.md), mark, indent)],
                     ListItems(doc, lis, i + 1, r.pe, parentPath, ordered))
  IN IF i > Len(lis) THEN Done(<<>>, pe, <<>>)
     ELSE Rest(processElementContent(doc, lis[i], pe, parentPath))

\* parseInt(tagName.substring(1), 10) for a heading's tag name.
HeadingLevel(tagName) ==
  CASE tagName = "H1" -> 1 [] tagName = "H2" -> 2 [] tagName = "H3" -> 3
    [] tagName = "H4" -> 4 [] tagName = "H5" -> 5 [] tagName = "H6" -> 6
\* The switch on the tag name.
Dispatch(doc, p, pe, parentPath) ==
  LET element == At(doc, p)
      tagName == element.tag
      lis == SelectSeq(Children(doc, p), LAMBDA c : TagIs(At(doc, c), "LI"))
      parent == At(doc, SubSeq(p, 1, Len(p) - 1))
      Wrapped(kids, pre, suf) == IF kids.err THEN kids ELSE [kids EXCEPT !.md = pre \o @ \o suf]
      Paragraph(kids, text) ==
        IF kids.err THEN kids
        ELSE [kids EXCEPT !.md = IF text # <<>> THEN text \o <<"\n", "\n">> ELSE <<>>]
      Heading(kids, text) ==
        IF kids.err THEN kids
        ELSE [kids EXCEPT !.md = [i \in 1..HeadingLevel(tagName) |-> "#"]
                                 \o <<" ">> \o text \o <<"\n", "\n">>]
      List(items) == IF items.err THEN items ELSE [items EXCEPT !.md = @ \o <<"\n">>]
      \* The cases whose output is built from the element's processed children.
      Children2(kids) ==
        CASE tagName = "P" -> Paragraph(kids, Trim(kids.md))
          [] tagName \in HeadingTags -> Heading(kids, Trim(kids.md))
          [] tagName \in {"STRONG", "B"} -> Wrapped(kids, <<"*", "*">>, <<"*", "*">>)
          [] tagName \in {"EM", "I"} -> Wrapped(kids, <<"*">>, <<"*">>)
          [] tagName = "SPAN" /\ HasClass(element, "highlight") ->
               Wrapped(kids, <<"*", "*">>, <<"*", "*">>)
          [] OTHER -> kids
  IN CASE tagName = "DIV" -> processDiv(doc, p, pe, parentPath)
       [] tagName = "TABLE" -> processTable(doc, p, pe, parentPath)
       [] tagName \in {"UL", "OL"} ->
            List(ListItems(doc, lis, 1, pe, parentPath, tagName = "OL"))
       [] tagName = "A" -> processLink(doc, p, pe, parentPath)
       [] tagName = "IMG" -> Done(processImage(doc, p), pe, <<>>)
       [] tagName = "CODE" ->
            Done(IF p # <<>> /\ parent.tag = "PRE" THEN TextContent(element)
                 ELSE <<"\\", "[">> \o TextContent(element) \o <<"\\", "]">>, pe, <<>>)
       [] tagName = "PRE" ->
            Done(<<"\\", "[", "\\", "[", "\\", "[">> \o Attr(element, "data-language") \o <<"\n">>
                 \o Trim(TextContent(element))
                 \o <<"\n", "\\", "]", "\\", "]", "\\", "]", "\n", "\n">>, pe, <<>>)
       [] tagName = "BR" -> Done(<<"\n">>, pe, <<>>)
       [] tagName = "HR" -> Done(<<"\n", "-", "-", "-", "\n", "\n">>, pe, <<>>)
       [] tagName = "SPAN" /\ ~HasClass(element, "highlight")
            /\ HasClass(element, "status-macro") ->
            Done(<<"\\", "[">> \o Trim(TextContent(element)) \o <<"\\", "]">>, pe, <<>>)
       [] OTHER -> Children2(ProcessNodes(doc, ChildNodes(doc, p), 1, pe, parentPath))

\* processElementContent
processElementContent(doc, p, pe, parentPath) ==
  LET element == At(doc, p)
      Entry(ev, set, out) ==
        <<[p |-> p, ev |-> ev, marked |-> p \in set, scope |-> parentPath, out |-> out]>>
      Ran(marked, r) == [r EXCEPT !.log = Entry("run", marked, ~r.err /\ r.md # <<>>) \o @]
  IN IF element.nt = 3 THEN Done(element.text, pe, <<>>)
     ELSE IF shouldBeIgnored(element, parentPath)
     THEN Done(<<>>, pe \cup {p}, Entry("drop", pe \cup {p}, FALSE))
     ELSE IF p \in pe THEN Done(<<>>, pe, Entry("skip", pe, FALSE))
     ELSE Ran(MarkProcessed(pe, p), Dispatch(doc, p, MarkProcessed(pe, p), parentPath))

\* processHeader, which element-processors.js exports; the dispatcher above
\* writes headings itself and does not call it.  The result carries, next to the
\* Markdown, the id the heading has when the call returns (header.id is
\* assigned when the heading has none and the slug is not empty), the slug the
\* call resolved, and whether it got as far as resolving one.
HeaderSlug(header, text) == IF header.id # <<>> THEN header.id ELSE slugify(text)
HeaderId(header, slug) == IF slug # <<>> /\ header.id = <<>> THEN slug ELSE header.id
HeaderMarkdown(header, text, id) ==
  [i \in 1..HeadingLevel(header.tag) |-> "#"] \o <<" ">> \o text
  \o (IF id # <<>> THEN <<" ", "{", "#">> \o id \o <<"}">> ELSE <<>>) \o <<"\n", "\n">>
HeaderWith(r, header, text, slug) ==
  [md |-> HeaderMarkdown(header, text, HeaderId(header, slug)), pe |-> r.pe, log |-> r.log,
   err |-> FALSE, id |-> HeaderId(header, slug), slug |-> slug, resolved |-> TRUE]
HeaderUnresolved(r, header) ==
  [md |-> <<>>, pe |-> r.pe, log |-> r.log, err |-> r.err, id |-> header.id, slug |-> <<>>,
   resolved |-> FALSE]
HeaderFrom(r, header, text) ==
  IF r.err \/ text = <<>> THEN HeaderUnresolved(r, header)
  ELSE HeaderWith(r, header, text, HeaderSlug(header, text))
processHeaderFromText(doc, p, pe, parentPath) ==
  LET Fresh(r, header, text) ==
        IF r.err \/ text = <<>> THEN HeaderUnresolved(r, header)
        ELSE HeaderWith(r, [header EXCEPT !.id = <<>>], text, slugify(text))
      Children2(r) == Fresh(r, At(doc, p), Trim(r.md))
  IN Children2(ProcessNodes(doc, ChildNodes(doc, p), 1, pe, parentPath))
processHeader(doc, p, pe, parentPath) ==
  LET Children2(r) == HeaderFrom(r, At(doc, p), Trim(r.md))
  IN IF At(doc, p).svg THEN HeaderUnresolved(Thrown(pe, <<>>), At(doc, p))
     ELSE Children2(ProcessNodes(doc, ChildNodes(doc, p), 1, pe, parentPath))

\* processLink: the id of the link's target when the call returns.  The id is
\* assigned when the target is neither a heading nor in a table of contents
\* and has no id.
LinkTargetId(doc, raw, text, target) ==
  IF /\ StartsWith(raw, <<"#">>) /\ text # <<>>
     /\ ~(\E h \in HeadingTags : TagIs(At(doc, target), h))
     /\ ~HasClosest(doc, target, LAMBDA a : Attr(At(doc, a), "data-macro-name") = <<"t", "o", "c">>)
     /\ At(doc, target).id = <<>>
  THEN SubSeq(raw, 2, Len(raw))
  ELSE At(doc, target).id
\* element.id = id
RECURSIVE SetId(_, _, _)
SetId(doc, p, id) ==
  IF p = <<>> THEN [doc EXCEPT !.id = id]
  ELSE [doc EXCEPT !.kids[Head(p)] = SetId(@, Tail(p), id)]

\* ------------------------------------------------- the document's sections
\* document.querySelector: the first element of the document, the root
\* included, that matches.
DocQuery(doc, Matches(_)) == IF Matches(<<>>) THEN <<>> ELSE Query(doc, <<>>, Matches)
HasId(doc, p, id) == At(doc, p).id = id
\* "ancestor descendant" selectors: p has a proper ancestor that matches.
HasAncestor(doc, p, Matches(_)) == \E i \in 1..Len(p) : Matches(Ancestors(p)[i])
\* document.title is kept as an attribute of the root.
DocumentTitle(doc) == Attr(doc, "document.title")

\* String.prototype.match(re) without the g flag: the first match, or none.
NoMatch == [pos |-> 0, caps |-> NoCaps]
MatchFirst(re, s) ==
  LET Found(ms, j) == IF j = 0 THEN NoMatch ELSE Head(ms[j])
      First(ms) == Found(ms, FirstHit(ms, 1))
  IN First(AllMatches(re, s))
\* A literal under the i flag.
UpperOf(c) == IF c \in LowerChars THEN UpperSeq[CHOOSE k \in 1..26 : LowerSeq[k] = c] ELSE c
LitI(s) == Cat([i \in 1..Len(s) |-> Cls({s[i], UpperOf(s[i])})])

\* The value of a textarea whose innerHTML was set to the text: character
\* references are decoded.  Of the named references only these four are
\* modelled.
DecodeRules ==
  << [re |-> Lit(<<"&", "l", "t", ";">>), tpl |-> <<"<">>],
     [re |-> Lit(<<"&", "g", "t", ";">>), tpl |-> <<">">>],
     [re |-> Lit(<<"&", "q", "u", "o", "t", ";">>), tpl |-> <<"\"">>],
     [re |-> Lit(<<"&", "a", "m", "p", ";">>), tpl |-> <<"&">>] >>
DecodeEntities(s) == ApplyRules(DecodeRules, 1, s)
\* .replace(/^.*\s*:\s*/, '')
StripTitlePrefix(s) ==
  ReplaceFirst(Cat(<<Sos, Rep(Dot, 0, Inf), Rep(Ws, 0, Inf), Chr(":"), Rep(Ws, 0, Inf)>>),
               <<>>, s)
\* extractTitle
extractTitle(doc) ==
  LET FirstOf(a, b) == IF a # NoNode THEN a ELSE b
      titleElement ==
        FirstOf(DocQuery(doc, LAMBDA d : HasId(doc, d, <<"t", "i", "t", "l", "e", "-", "t", "e", "x", "t">>)),
          FirstOf(DocQuery(doc, LAMBDA d : HasClass(At(doc, d), "pagetitle")),
            FirstOf(DocQuery(doc, LAMBDA d :
                      /\ HasClass(At(doc, d), "page-title")
                      /\ HasAncestor(doc, d, LAMBDA a : HasId(doc, a, <<"t", "i", "t", "l", "e", "-", "h", "e", "a", "d", "i", "n", "g">>))),
              FirstOf(DocQuery(doc, LAMBDA d : HasId(doc, d, <<"t", "i", "t", "l", "e", "-", "h", "e", "a", "d", "i", "n", "g">>)),
                      DocQuery(doc, LAMBDA d : UpperTagIs(At(doc, d), "H1"))))))
      FromDocument(documentTitle) ==
        IF documentTitle # <<>> THEN StripTitlePrefix(Trim(documentTitle)) ELSE <<"U", "n", "t", "i", "t", "l", "e", "d", " ", "P", "a", "g", "e">>
      Title(element) ==
        IF element # NoNode
        THEN StripTitlePrefix(Trim(TextAt(doc,
               FirstOf(Query(doc, element, LAMBDA d : HasId(doc, d, <<"t", "i", "t", "l", "e", "-", "t", "e", "x", "t">>)), element))))
        ELSE FromDocument(DocumentTitle(doc))
  IN DecodeEntities(Title(titleElement))

\* /last updated by\s+(.*?)(?:\s+on\s+(.*))?$/i
LastUpdatedBy ==
  Cat(<<LitI(<<"l", "a", "s", "t", " ", "u", "p", "d", "a", "t", "e", "d", " ", "b", "y">>), Rep(Ws, 1, Inf), Grp(1, Lazy(Dot, 0, Inf)),
        Rep(Cat(<<Rep(Ws, 1, Inf), LitI(<<"o", "n">>), Rep(Ws, 1, Inf), Grp(2, Rep(Dot, 0, Inf))>>),
            0, 1),
        Eos>>)
\* extractLastModified
extractLastModified(doc) ==
  LET lastModified == DocQuery(doc, LAMBDA d : HasClass(At(doc, d), "last-modified"))
      editor == DocQuery(doc, LAMBDA d :
                  /\ HasClass(At(doc, d), "editor")
                  /\ HasAncestor(doc, d, LAMBDA a : HasClass(At(doc, a), "page-metadata")))
      Editor(text, match) == IF match # NoMatch THEN Trim(CapText(text, match, 1)) ELSE <<>>
      InText(text) == Editor(text, MatchFirst(LastUpdatedBy, text))
      Metadata(metadata) == IF metadata # NoNode THEN InText(Trim(TextAt(doc, metadata))) ELSE <<>>
      Text(node, other) == IF node # NoNode THEN Trim(TextAt(doc, node)) ELSE other
  IN Text(lastModified,
          Text(editor,
               Metadata(DocQuery(doc, LAMBDA d : HasClass(At(doc, d), "page-metadata")))))

\* utilities.escapeYaml
YamlRules ==
  << \* /"/g -> '\\"'
     [re |-> Chr("\""), tpl |-> <<"\\", "\"">>],
     \* /\n/g -> ' '
     [re |-> Chr("\n"), tpl |-> <<" ">>],
     \* /[:\[\]{}|>&#@[tick]%]/g -> a backslash and the character
     [re |-> Grp(1, Cls({":", "[", "]", "{", "}", "|", ">", "&", "#", "@", Tick, "%"})),
      tpl |-> <<"\\", "$1">>] >>
escapeYaml(text) == ApplyRules(YamlRules, 1, text)

\* The front matter and title heading generateMarkdown starts the document with.
FrontMatter(doc) ==
  LET Write(title, lastModified) ==
        <<"-", "-", "-", "\n", "t", "i", "t", "l", "e", ":", " ", "\"">> \o escapeYaml(title) \o <<"\"", "\n", "l", "a", "s", "t", "M", "o", "d", "i", "f", "i", "e", "d", ":", " ", "\"">>
        \o escapeYaml(lastModified) \o <<"\"", "\n", "-", "-", "-", "\n", "\n", "#", " ">> \o title \o <<"\n", "\n">>
  IN Write(extractTitle(doc), extractLastModified(doc))

\* findMainContent
findMainContent(doc) ==
  LET FirstOf(a, b) == IF a # NoNode THEN a ELSE b
  IN FirstOf(DocQuery(doc, LAMBDA d : HasId(doc, d, <<"m", "a", "i", "n", "-", "c", "o", "n", "t", "e", "n", "t">>)),
       FirstOf(DocQuery(doc, LAMBDA d :
                 /\ HasClass(At(doc, d), "wiki-content")
                 /\ HasAncestor(doc, d, LAMBDA a : HasId(doc, a, <<"c", "o", "n", "t", "e", "n", "t">>))),
         FirstOf(DocQuery(doc, LAMBDA d : HasClass(At(doc, d), "wiki-content")),
           FirstOf(DocQuery(doc, LAMBDA d : HasId(doc, d, <<"c", "o", "n", "t", "e", "n", "t">>)),
             FirstOf(DocQuery(doc, LAMBDA d : HasClass(At(doc, d), "view")), <<>>)))))

\* findHistoryTable: the table that follows a heading, among the heading's
\* later element siblings and before the next heading.
RECURSIVE TableAfter(_, _, _)
TableAfter(doc, sibs, k) ==
  IF k > Len(sibs) THEN NoNode
  ELSE IF TagIs(At(doc, sibs[k]), "TABLE") THEN sibs[k]
  ELSE IF ~At(doc, sibs[k]).svg /\ At(doc, sibs[k]).tag \in HeadingTags THEN NoNode
  ELSE TableAfter(doc, sibs, k + 1)
NextElementSiblings(doc, p) ==
  SelectSeq(Children(doc, SubSeq(p, 1, Len(p) - 1)), LAMBDA c : c[Len(c)] > p[Len(p)])
RECURSIVE TableByHeading(_, _, _)
TableByHeading(doc, hs, i) ==
  IF i > Len(hs) THEN NoNode
  ELSE LET text == ToLowerCase(TextAt(doc, hs[i]))
           found == TableAfter(doc, NextElementSiblings(doc, hs[i]), 1)
       IN IF (Includes(text, <<"h", "i", "s", "t", "o", "r", "y">>) \/ Includes(text, <<"v", "e", "r", "s", "i", "o", "n">>)) /\ found # NoNode
          THEN found ELSE TableByHeading(doc, hs, i + 1)
\* findHistoryTable
findHistoryTable(doc) ==
  LET container == DocQuery(doc, LAMBDA d : HasId(doc, d, <<"p", "a", "g", "e", "-", "h", "i", "s", "t", "o", "r", "y", "-", "c", "o", "n", "t", "a", "i", "n", "e", "r">>))
      tableview == DocQuery(doc, LAMBDA d : HasClass(At(doc, d), "tableview"))
      pageHistory == DocQuery(doc, LAMBDA d :
                       UpperTagIs(At(doc, d), "TABLE") /\ HasClass(At(doc, d), "pageHistory"))
      byId == DocQuery(doc, LAMBDA d :
                UpperTagIs(At(doc, d), "TABLE") /\ HasId(doc, d, <<"p", "a", "g", "e", "-", "h", "i", "s", "t", "o", "r", "y">>))
      byHeading == TableByHeading(doc,
                     QueryAll(doc, <<>>, LAMBDA d : At(doc, d).tag \in HeadingTags), 1)
      Headers(t) ==
        LET cells == QueryAll(doc, t, LAMBDA d :
                       \/ UpperTagIs(At(doc, d), "TH")
                       \/ /\ UpperTagIs(At(doc, d), "TD")
                          /\ HasAncestor(doc, d, LAMBDA a : UpperTagIs(At(doc, a), "THEAD")))
        IN {ToLowerCase(Trim(TextAt(doc, cells[i]))) : i \in 1..Len(cells)}
      byHeaders == DocQuery(doc, LAMBDA d :
                     /\ UpperTagIs(At(doc, d), "TABLE")
                     /\ (<<"v", "e", "r", "s", "i", "o", "n">> \in Headers(d) \/ <<"v", ".">> \in Headers(d))
                     /\ \E h \in {<<"c", "h", "a", "n", "g", "e", "d", " ", "b", "y">>, <<"a", "u", "t", "h", "o", "r">>, <<"p", "u", "b", "l", "i", "s", "h", "e", "d">>, <<"m", "o", "d", "i", "f", "i", "e", "d">>} :
                          h \in Headers(d))
      expander == DocQuery(doc, LAMBDA d :
                    /\ HasClass(At(doc, d), "expand-container")
                    /\ LET controlText == Query(doc, d, LAMBDA c :
                                            HasClass(At(doc, c), "expand-control-text"))
                       IN /\ controlText # NoNode
                          /\ Includes(ToLowerCase(TextAt(doc, controlText)), <<"h", "i", "s", "t", "o", "r", "y">>)
                    /\ Query(doc, d, LAMBDA c : UpperTagIs(At(doc, c), "TABLE")) # NoNode)
  IN IF container # NoNode THEN container
     ELSE IF tableview # NoNode THEN tableview
     ELSE IF pageHistory # NoNode THEN pageHistory
     ELSE IF byId # NoNode THEN byId
     ELSE IF byHeading # NoNode THEN byHeading
     ELSE IF byHeaders # NoNode THEN byHeaders
     ELSE IF expander # NoNode
     THEN Query(doc, expander, LAMBDA c : UpperTagIs(At(doc, c), "TABLE"))
     ELSE NoNode

\* utilities.cleanupMetadataContent
MetadataRules ==
  << \* /\/\s+/g -> ' '
     [re |-> Cat(<<Chr("/"), Rep(Ws, 1, Inf)>>), tpl |-> <<" ">>],
     \* /\s+[em dash]>/g -> ' -->'
     [re |-> Cat(<<Rep(Ws, 1, Inf), Chr("EMDASH"), Chr(">")>>), tpl |-> <<" ", "-", "-", ">">>],
     \* /\s+->/g -> ' ->'
     [re |-> Cat(<<Rep(Ws, 1, Inf), Chr("-"), Chr(">")>>), tpl |-> <<" ", "-", ">">>],
     \* /\s+>/g -> ' >'
     [re |-> Cat(<<Rep(Ws, 1, Inf), Chr(">")>>), tpl |-> <<" ", ">">>] >>
cleanupMetadataContent(metadataText) == Trim(ApplyRules(MetadataRules, 1, metadataText))

\* processMetadata.  The metadata element itself is not added to the
\* processed set; whatever a child's handler throws leaves the function.
processMetadata(doc, p, pe, parentPath) ==
  LET Comment(cleanedMetadata) ==
        IF cleanedMetadata # <<>>
        THEN <<"\n", "<", "!", "-", "-", " ", "P", "a", "g", "e", " ", "M", "e", "t", "a", "d", "a", "t", "a", " ", "P", "r", "o", "c", "e", "s", "s", "e", "d", " ", "-", "-", ">", "\n">> \o cleanedMetadata
             \o <<"\n", "<", "!", "-", "-", " ", "E", "n", "d", " ", "P", "a", "g", "e", " ", "M", "e", "t", "a", "d", "a", "t", "a", " ", "-", "-", ">", "\n", "\n">>
        ELSE <<>>
      Close(r) == IF r.err THEN r
                  ELSE Done(Comment(cleanupMetadataContent(Trim(r.md))), r.pe, r.log)
  IN IF p \in pe THEN Done(<<>>, pe, <<>>)
     ELSE Close(ProcessNodes(doc, ChildNodes(doc, p), 1, pe, parentPath))

\* processAttachmentsSection: the loop over the section's links.
RECURSIVE AttachmentLinks(_, _, _, _)
AttachmentLinks(doc, links, i, pe) ==
  LET link == At(doc, links[i])
      href == Attr(link, "href")
      Text(content, name) == IF content # <<>> /\ name # <<>> THEN name
                             ELSE IF content # <<>> THEN content ELSE href
      text == Text(Trim(TextContent(link)), Attr(link, "data-attachment-name"))
      listed == links[i] \notin pe /\ href # <<>>
      Item(rest) ==
        [rest EXCEPT !.md = (IF listed
                             THEN <<"-", " ", "[">> \o text \o <<"]", "(">> \o href
                                  \o <<")", "\n">>
                             ELSE <<>>) \o @]
  IN IF i > Len(links) THEN [md |-> <<>>, pe |-> pe]
     ELSE Item(AttachmentLinks(doc, links, i + 1, IF listed THEN pe \cup {links[i]} ELSE pe))
\* processAttachmentsSection
processAttachmentsSection(doc, p, pe) ==
  LET Section(markdown, r) ==
        [md |-> IF Len(Trim(markdown)) > Len(<<"#", "#", "#", " ", "A", "t", "t", "a", "c", "h", "m", "e", "n", "t", "s">>)
                THEN markdown \o <<"\n", "\n">> ELSE <<>>,
         pe |-> r.pe]
      Close(r) == Section(<<"\n", "#", "#", "#", " ", "A", "t", "t", "a", "c", "h", "m", "e", "n", "t", "s", "\n", "\n">> \o r.md, r)
  IN IF p \in pe THEN [md |-> <<>>, pe |-> pe]
     ELSE Close(AttachmentLinks(doc, QueryAll(doc, p, LAMBDA d : UpperTagIs(At(doc, d), "A")),
                                1, pe))

\* ------------------------------------------- generateMarkdown, step by step
\* The documents converted: BODY holds an optional page-metadata block, the
\* main content (#main-content) with at most MaxBlocks blocks, and an optional
\* attachments section.
Para(text) == El("P", <<>>, {}, {}, <<Tx(text)>>)
HistoryRow ==
  El("TR", <<>>, {}, {},
     <<El("TD", <<>>, {}, {}, <<Tx(<<"v", "1">>)>>), El("TD", <<>>, {}, {}, <<Tx(<<"d">>)>>),
       El("TD", <<>>, {}, {}, <<Tx(<<"u">>)>>)>>)
\* A page-history table as Confluence exports it (class tableview).
HistoryTable(at) ==
  El("TABLE", <<>>, {"tableview"}, at, <<El("TBODY", <<>>, {}, {}, <<HistoryRow>>)>>)
\* A two-column table whose first cell holds a heading: a ComplexSections table.
SectionsTable(content) ==
  El("TABLE", <<>>, {}, {},
     <<El("TBODY", <<>>, {}, {},
          <<El("TR", <<>>, {}, {},
               <<El("TD", <<>>, {}, {}, <<El("H2", <<>>, {}, {}, <<Tx(<<"k">>)>>)>>),
                 El("TD", <<>>, {}, {}, <<content>>)>>)>>)>>)
SvgLink == SvgEl("SVG", {}, <<SvgEl("A", {<<"href", <<"u">>>>}, <<Tx(<<"s">>)>>)>>)
BlockChoices ==
  { Para(<<"x">>),
    El("H2", <<>>, {}, {}, <<Tx(<<"q">>)>>),
    El("DIV", <<>>, {"panel"}, {},
       <<El("DIV", <<>>, {"panelHeader"}, {}, <<El("B", <<>>, {}, {}, <<Tx(<<"w">>)>>)>>)>>),
    El("DIV", <<>>, {"hidden"}, {}, <<Tx(<<"n">>)>>),
    El("UL", <<>>, {}, {}, <<El("LI", <<>>, {}, {}, <<Tx(<<"i">>)>>)>>),
    El("P", <<>>, {}, {}, <<SvgLink>>),
    HistoryTable({}),
    SectionsTable(HistoryTable({})),
    SectionsTable(HistoryTable({<<"aria-hidden", <<"t", "r", "u", "e">>>>})) }
MetadataChoices ==
  { <<>>,
    <<El("DIV", <<>>, {"page-metadata"}, {}, <<Para(<<"m">>)>>)>>,
    <<El("DIV", <<>>, {"page-metadata"}, {}, <<SvgLink>>)>> }
AttachmentChoices ==
  { <<>>,
    <<El("DIV", <<"a", "t", "t", "a", "c", "h", "m", "e", "n", "t", "s">>, {}, {},
         <<El("A", <<>>, {}, {<<"href", <<"f">>>>}, <<Tx(<<"g">>)>>)>>)>> }
Documents ==
  { El("BODY", <<>>, {}, {},
       metadata \o <<El("DIV", <<"m", "a", "i", "n", "-", "c", "o", "n", "t", "e", "n", "t">>, {}, {}, blocks)>> \o attachments) :
      metadata \in MetadataChoices,
      blocks \in SeqsUpTo(BlockChoices, MaxBlocks),
      attachments \in AttachmentChoices }

InitWalk ==
  /\ BatchIdle /\ CleanIdle /\ TableIdle
  /\ gDoc \in Documents
  /\ gProcessed = {}
  /\ gMarkdown = <<>>
  /\ gLog = <<>>
  /\ gChild = 0
  /\ gpc = "start"
  /\ gFirst = NoRun

WriteFrontMatterSharedSet ==
  /\ gpc = "start"
  /\ gMarkdown' = FrontMatter(gDoc)
  /\ gProcessed' = gProcessed
  /\ gpc' = "metadata"
  /\ UNCHANGED <<gDoc, gLog, gChild, gFirst>>
  /\ UNCHANGED <<batchVars, cleanVars, tableVars>>
\* generateMarkdown up to the creation of the processed set.
WriteFrontMatter ==
  /\ gpc = "start"
  /\ gMarkdown' = FrontMatter(gDoc)
  /\ gProcessed' = {}
  /\ gpc' = "metadata"
  /\ UNCHANGED <<gDoc, gLog, gChild, gFirst>>
  /\ UNCHANGED <<batchVars, cleanVars, tableVars>>

\* The page-metadata step.  processMetadata is called outside any try block of
\* its own, so what it throws is rethrown by generateMarkdown's catch.
MetadataStep ==
  /\ gpc = "metadata"
  /\ LET Apply(r) ==
           /\ gpc' = IF r.err THEN "thrown" ELSE "main"
           /\ gMarkdown' = IF r.err THEN gMarkdown ELSE gMarkdown \o r.md
           /\ gProcessed' = r.pe
           /\ gLog' = gLog \o r.log
         pageMetadata == DocQuery(gDoc, LAMBDA d : HasClass(At(gDoc, d), "page-metadata"))
     IN IF pageMetadata = NoNode
        THEN /\ gpc' = "main"
             /\ UNCHANGED <<gMarkdown, gProcessed, gLog>>
        ELSE Apply(processMetadata(gDoc, pageMetadata, gProcessed, MetadataSection))
  /\ gChild' = 1
  /\ UNCHANGED <<gDoc, gFirst>>
  /\ UNCHANGED <<batchVars, cleanVars, tableVars>>

\* One pass of the loop over the child nodes of the main content: a child
\* already in the processed set is skipped, and what the dispatcher throws is
\* caught and the child then contributes nothing.
MainChildStep ==
  /\ gpc = "main"
  /\ LET Apply(r) ==
           /\ gMarkdown' = IF r.err THEN gMarkdown ELSE gMarkdown \o r.md
           /\ gProcessed' = r.pe
           /\ gLog' = gLog \o r.log
         childNodes == ChildNodes(gDoc, findMainContent(gDoc))
     IN /\ gChild <= Len(childNodes)
        /\ IF childNodes[gChild] \in gProcessed
           THEN UNCHANGED <<gMarkdown, gProcessed, gLog>>
           ELSE Apply(processElementContent(gDoc, childNodes[gChild], gProcessed,
                                            MainContentRoot))
  /\ gChild' = gChild + 1
  /\ UNCHANGED <<gDoc, gpc, gFirst>>
  /\ UNCHANGED <<batchVars, cleanVars, tableVars>>

\* After the loop: the history table, unless it is in the processed set.
HistoryStep ==
  /\ gpc = "main"
  /\ gChild > Len(ChildNodes(gDoc, findMainContent(gDoc)))
  /\ LET Apply(historyTable, r) ==
           /\ gMarkdown' = gMarkdown \o r.md
           /\ gProcessed' = r.pe
           /\ gLog' = Append(gLog, [p |-> historyTable, ev |-> "history",
                                    marked |-> historyTable \in r.pe,
                                    scope |-> "HISTORY_SECTION", out |-> r.md # <<>>])
         Step(historyTable) ==
           IF historyTable # NoNode /\ historyTable \notin gProcessed
           THEN Apply(historyTable, processHistoryTable(gDoc, historyTable, gProcessed))
           ELSE UNCHANGED <<gMarkdown, gProcessed, gLog>>
     IN Step(findHistoryTable(gDoc))
  /\ gpc' = "attachments"
  /\ UNCHANGED <<gDoc, gChild, gFirst>>
  /\ UNCHANGED <<batchVars, cleanVars, tableVars>>

\* The attachments section, unless it is in the processed set.
AttachmentsStep ==
  /\ gpc = "attachments"
  /\ LET Apply(attachmentsSection, r) ==
           /\ gMarkdown' = IF r.md # <<>> THEN gMarkdown \o <<"\n", "\n">> \o r.md
                           ELSE gMarkdown
           /\ gProcessed' = r.pe
           /\ gLog' = Append(gLog, [p |-> attachmentsSection, ev |-> "attachments",
                                    marked |-> attachmentsSection \in r.pe,
                                    scope |-> "ATTACHMENTS_SECTION", out |-> r.md # <<>>])
         Step(attachmentsSection) ==
           IF attachmentsSection # NoNode /\ attachmentsSection \notin gProcessed
           THEN Apply(attachmentsSection,
                      processAttachmentsSection(gDoc, attachmentsSection, gProcessed))
           ELSE UNCHANGED <<gMarkdown, gProcessed, gLog>>
     IN Step(DocQuery(gDoc, LAMBDA d : HasId(gDoc, d, <<"a", "t", "t", "a", "c", "h", "m", "e", "n", "t", "s">>)))
  /\ gpc' = "cleanup"
  /\ UNCHANGED <<gDoc, gChild, gFirst>>
  /\ UNCHANGED <<batchVars, cleanVars, tableVars>>

\* cleanupMarkdown, fixBrokenTables and trim.  Between them the text goes to the
\* external formatter inside a try block; the formatter is not modelled, and
\* the text is carried on as in the branch where the formatter fails.
CleanupStep ==
  /\ gpc = "cleanup"
  /\ gMarkdown' = Trim(fixBrokenTables(cleanupMarkdown(gMarkdown)))
  /\ gpc' = "returned"
  /\ UNCHANGED <<gDoc, gProcessed, gLog, gChild, gFirst>>
  /\ UNCHANGED <<batchVars, cleanVars, tableVars>>

Next ==
  \/ WriteFrontMatter
  \/ MetadataStep
  \/ MainChildStep
  \/ HistoryStep
  \/ AttachmentsStep
  \/ CleanupStep
Spec == InitWalk /\ [][Next]_vars

\* C28: the page-history table is written at most once: when the walk over the
\* main content has run the dispatcher on the history table and the call
\* returned Markdown, the history step after the walk writes nothing.
C28_HistoryOnce ==
  [][(/\ gpc = "main" /\ gpc' = "attachments"
      /\ \E i \in DOMAIN gLog :
           /\ gLog[i].ev = "run" /\ gLog[i].out
           /\ gLog[i].p = findHistoryTable(gDoc))
     => gMarkdown' = gMarkdown]_vars

\* A caller converts the document it has converted before: generateMarkdown is
\* called on the same document object again.  Nothing on the way of a
\* conversion writes to the document (the one assignment on it, to the id of a
\* link target that has none in processLink, is never reached: the target was
\* found by that id), so the second call starts from the document as it was.
\* The processed set of the first call is left as that call left it.
Reconvert ==
  /\ gpc \in {"returned", "thrown"}
  /\ gFirst = NoRun
  /\ gFirst' = [pc |-> gpc, md |-> IF gpc = "returned" THEN gMarkdown ELSE <<>>]
  /\ gpc' = "start"
  /\ gMarkdown' = <<>>
  /\ gLog' = <<>>
  /\ gChild' = 0
  /\ UNCHANGED <<gDoc, gProcessed>>
  /\ UNCHANGED <<batchVars, cleanVars, tableVars>>
NextTwice == Next \/ Reconvert
SpecTwice == InitWalk /\ [][NextTwice]_vars

\* The indices of the dispatcher's log.
Visits == DOMAIN gLog

\* C1: an element reachable by two paths (the main-content walk, a table-cell
\* renderer, the history-table step) contributes Markdown to the output once:
\* no element has two visits that both returned Markdown.
C1_ProcessedOnce ==
  \A i, j \in Visits :
    (i # j /\ gLog[i].p = gLog[j].p) => ~(gLog[i].out /\ gLog[j].out)

C3_OutOfScopeDrop ==
  \A i \in Visits :
    (gLog[i].ev \in {"run", "skip", "drop"} /\ ~InMainContent(gLog[i].scope)) =>
      gLog[i].ev = "drop" /\ ~gLog[i].out

\* C4: an element the drop filter rejected is in the processed set once the
\* dispatcher has returned, and no later visit of it produces output.
C4_DroppedStaysDropped ==
  \A i \in Visits :
    gLog[i].ev = "drop" =>
      /\ gLog[i].p \in gProcessed
      /\ \A j \in Visits : (j > i /\ gLog[j].p = gLog[i].p) => ~gLog[j].out

\* C5: the conversion of a document returns a string; it never throws.
C5_NoThrow == gpc # "thrown"

CleanChars == {"#", " ", "A", "b", "\n", "-", "|"}

InitClean ==
  /\ BatchIdle /\ WalkIdle /\ TableIdle
  /\ cIn \in StrsUpTo(CleanChars, MaxLen)
  /\ cOut = <<>>
  /\ cOut2 = <<>>
  /\ cpc = "in"

CleanOnce ==
  /\ cpc = "in"
  /\ cOut' = cleanup(cIn)
  /\ cpc' = "once"
  /\ UNCHANGED <<cIn, cOut2>>
  /\ UNCHANGED <<batchVars, walkVars, tableVars>>

CleanTwice ==
  /\ cpc = "once"
  /\ cOut2' = cleanup(cOut)
  /\ cpc' = "twice"
  /\ UNCHANGED <<cIn, cOut>>
  /\ UNCHANGED <<batchVars, walkVars, tableVars>>

NextClean == CleanOnce \/ CleanTwice
SpecClean == InitClean /\ [][NextClean]_vars

\* C7: cleanup idempotence: cleanup(cleanup(x)) = cleanup(x) for every x.
C7_CleanupIdempotent == cpc = "twice" => cOut2 = cOut

\* --------------------------------------------------- batch specification
\* run (index.js): processDirectory over the input tree, copyAssets, then
\* postProcessMarkdownFiles over the output tree.  A directory entry is an HTML
\* document (whose conversion either succeeds or throws), another file, one of
\* the special directories "attachments" and "images", or a subdirectory.  An
\* entry is identified by its path, the sequence of its positions from the root.
HtmlOk == [kind |-> "html", fails |-> FALSE]
HtmlBad == [kind |-> "html", fails |-> TRUE]
OtherFile == [kind |-> "other"]
SpecialDir == [kind |-> "special"]
SubDir(es) == [kind |-> "dir", entries |-> es]

RECURSIVE Directories(_)
Directories(depth) ==
  LET files == {HtmlOk, HtmlBad, OtherFile, SpecialDir}
  IN IF depth = 0 THEN SeqsUpTo(files, MaxEntries)
     ELSE SeqsUpTo(files \cup {SubDir(es) : es \in Directories(depth - 1)}, MaxEntries)

\* The entries of the directory at path p of the input tree.
RECURSIVE EntriesAt(_, _)
EntriesAt(tree, p) == IF p = <<>> THEN tree ELSE EntriesAt(tree[Head(p)].entries, Tail(p))
\* The paths of the HTML documents processDirectory is to convert.
RECURSIVE HtmlPaths(_, _)
HtmlPaths(es, prefix) ==
  UNION {IF es[i].kind = "html" THEN {Append(prefix, i)}
         ELSE IF es[i].kind = "dir" THEN HtmlPaths(es[i].entries, Append(prefix, i))
         ELSE {} : i \in 1..Len(es)}
DocAt(tree, p) == EntriesAt(tree, SubSeq(p, 1, Len(p) - 1))[p[Len(p)]]

\* The passes generateMarkdown runs on the assembled document before it returns
\* it, and the ones postProcessMarkdownFiles runs on each output file.
GeneratePasses == <<"cleanupMarkdown", "fixBrokenTables">>
PostProcessPasses == <<"cleanupMarkdown", "fixBrokenTables">>

\* A processDirectory call whose loop has run out of entries returns to its
\* caller, which moves on to its next entry.
RECURSIVE Unwind(_, _)
Unwind(tree, stack) ==
  IF stack = <<>> THEN stack
  ELSE LET top == stack[Len(stack)]
       IN IF top.i > Len(EntriesAt(tree, top.dir))
          THEN Unwind(tree, SubSeq(stack, 1, Len(stack) - 1))
          ELSE stack

InitBatch ==
  /\ CleanIdle /\ WalkIdle /\ TableIdle
  /\ bTree \in Directories(MaxDepth)
  /\ bStack = <<>>
  /\ bFiles = <<>>
  /\ bPost = {}
  /\ bpc = "start"

\* run calls converter.processDirectory(inputdir, outputdir).
StartRun ==
  /\ bpc = "start"
  /\ bStack' = Unwind(bTree, <<[dir |-> <<>>, i |-> 1]>>)
  /\ bpc' = IF bStack' = <<>> THEN "assets" ELSE "convert"
  /\ bFiles' = [p \in {} |-> <<>>]
  /\ UNCHANGED <<bTree, bPost>>
  /\ UNCHANGED <<cleanVars, walkVars, tableVars>>

\* One iteration of the loop of the innermost processDirectory call.  processFile
\* rethrows what the conversion throws, every processDirectory on the stack
\* rethrows it in turn, and run's catch ends the process with exit code 1.
ProcessEntry ==
  /\ bpc = "convert"
  /\ LET top == bStack[Len(bStack)]
         path == Append(top.dir, top.i)
         entry == EntriesAt(bTree, top.dir)[top.i]
         rest == [bStack EXCEPT ![Len(bStack)].i = @ + 1]
     IN CASE entry.kind = "special" \/ entry.kind = "other" ->
               /\ bStack' = Unwind(bTree, rest)
               /\ bpc' = IF bStack' = <<>> THEN "assets" ELSE "convert"
               /\ UNCHANGED bFiles
          [] entry.kind = "dir" ->
               /\ bStack' = Unwind(bTree, Append(rest, [dir |-> path, i |-> 1]))
               /\ bpc' = IF bStack' = <<>> THEN "assets" ELSE "convert"
               /\ UNCHANGED bFiles
          [] entry.kind = "html" /\ entry.fails ->
               /\ bStack' = <<>>
               /\ bpc' = "exit1"
               /\ UNCHANGED bFiles
          [] entry.kind = "html" /\ ~entry.fails ->
               /\ bStack' = Unwind(bTree, rest)
               /\ bpc' = IF bStack' = <<>> THEN "assets" ELSE "convert"
               /\ bFiles' = [p \in DOMAIN bFiles \cup {path} |->
                               IF p = path THEN GeneratePasses ELSE bFiles[p]]
  /\ UNCHANGED <<bTree, bPost>>
  /\ UNCHANGED <<cleanVars, walkVars, tableVars>>

\* fileSystem.copyAssets(inputdir, outputdir)
CopyAssets ==
  /\ bpc = "assets"
  /\ bpc' = IF DOMAIN bFiles = {} THEN "done" ELSE "post"
  /\ UNCHANGED <<bTree, bStack, bFiles, bPost>>
  /\ UNCHANGED <<cleanVars, walkVars, tableVars>>

\* One .md file of postProcessMarkdownFiles: read, cleanupMarkdown,
\* fixBrokenTables, write back.  readdir fixes no order.
PostProcessFile ==
  /\ bpc = "post"
  /\ \E p \in DOMAIN bFiles \ bPost :
       /\ bFiles' = [bFiles EXCEPT ![p] = @ \o PostProcessPasses]
       /\ bPost' = bPost \cup {p}
       /\ bpc' = IF bPost' = DOMAIN bFiles THEN "done" ELSE "post"
  /\ UNCHANGED <<bTree, bStack>>
  /\ UNCHANGED <<cleanVars, walkVars, tableVars>>

NextBatch == StartRun \/ ProcessEntry \/ CopyAssets \/ PostProcessFile
SpecBatch == InitBatch /\ [][NextBatch]_vars

\* C6: per-document failure isolation: when the run has ended, every document
\* of the batch whose own conversion does not fail has been converted and
\* written, whatever other documents failed.
C6_FailureIsolation ==
  bpc \in {"done", "exit1"} =>
    \A p \in HtmlPaths(bTree, <<>>) : ~DocAt(bTree, p).fails => p \in DOMAIN bFiles

\* C8: in a complete run the cleanup pipeline is applied exactly once to each
\* document, its passes in their fixed order.
C8_CleanupOnce ==
  bpc = "done" =>
    \A p \in DOMAIN bFiles : bFiles[p] = <<"cleanupMarkdown", "fixBrokenTables">>


\* --------------------------------------------------- table specification
\* processTable applied to one table.  The table is drawn from all tables of at
\* most MaxRows rows of at most MaxCells cells; a cell is a header cell or a
\* data cell, empty or with text, with or without a pipe character and a
\* colspan; the table has no border attribute or border="0".
CellChoices ==
  { El("TH", <<>>, {}, {}, <<Tx(<<"h">>)>>),
    El("TD", <<>>, {}, {}, <<>>),
    El("TD", <<>>, {}, {}, <<Tx(<<"a">>)>>),
    El("TD", <<>>, {}, {}, <<Tx(<<"a", "|", "b">>)>>),
    El("TD", <<>>, {}, {<<"colspan", <<"2">>>>}, <<Tx(<<"c">>)>>) }
TableChoices ==
  { El("BODY", <<>>, {}, {},
       <<El("TABLE", <<>>, {}, at, <<El("TBODY", <<>>, {}, {}, rows)>>)>>) :
      at \in {{}, {<<"border", <<"0">>>>}},
      rows \in SeqsUpTo({El("TR", <<>>, {}, {}, cells) :
                           cells \in SeqsUpTo(CellChoices, MaxCells)}, MaxRows) }
\* The table of a table specification's document.
TheTable == <<1>>

InitTable ==
  /\ BatchIdle /\ CleanIdle /\ WalkIdle
  /\ tDoc \in TableChoices
  /\ tOut = <<>>
  /\ tpc = "in"
\* processTable, called by the dispatcher with the table already marked.
RenderTable ==
  /\ tpc = "in"
  /\ tOut' = processTable(tDoc, TheTable, {TheTable}, MainContentRoot).md
  /\ tpc' = "out"
  /\ UNCHANGED tDoc
  /\ UNCHANGED <<batchVars, cleanVars, walkVars>>
NextTable == RenderTable
SpecTable == InitTable /\ [][NextTable]_vars

\* The lines of a rendered table, blank lines left out.
TableLines(md) == SelectSeq(Split(md, "\n"), LAMBDA line : line # <<>>)
\* The number of pipes of a line that delimit cells: a backslash escapes the
\* character after it, so a pipe delimits unless an unescaped backslash
\* precedes it.
RECURSIVE Delimiters(_, _)
Delimiters(line, i) ==
  IF i > Len(line) THEN 0
  ELSE IF line[i] = "\\" THEN Delimiters(line, i + 2)
  ELSE (IF line[i] = "|" THEN 1 ELSE 0) + Delimiters(line, i + 1)
CellsOf(line) == Delimiters(line, 1) - 1
\* A header-separator row: pipes and hyphens only.
IsSeparator(line) ==
  /\ \A i \in 1..Len(line) : line[i] \in {"|", "-"}
  /\ \E i \in 1..Len(line) : line[i] = "-"
RenderedStandard == tpc = "out" /\ TableKind(tDoc, TheTable) = "Standard" /\ tOut # <<>>

\* C9: every row the Standard renderer emits has as many pipe-delimited cells
\* as the header-separator row it emits, also when cell text holds a pipe.
C9_Rectangular ==
  RenderedStandard =>
    \A i, j \in 1..Len(TableLines(tOut)) :
      IsSeparator(TableLines(tOut)[j]) =>
        CellsOf(TableLines(tOut)[i]) = CellsOf(TableLines(tOut)[j])

\* C10: every non-empty output of the Standard renderer has exactly one
\* header-separator row, and it is the second line of the table, also for a
\* table of one row and for a table whose first row is empty.
C10_OneSeparatorSecond ==
  RenderedStandard =>
    /\ Len(TableLines(tOut)) >= 2
    /\ \A i \in 1..Len(TableLines(tOut)) : IsSeparator(TableLines(tOut)[i]) <=> i = 2


\* ------------------------------------------- classification specification
\* processTable applied to tables that can satisfy more than one of the
\* classification tests: the table has the class tableview or wysiwyg-macro or
\* none, border="0" or no border attribute, and sits in a column layout or
\* not; its rows are drawn from KindRows.
DataCell(text) == El("TD", <<>>, {}, {}, <<Tx(text)>>)
KindRows ==
  { \* a page-history row: version, date, user
    El("TR", <<>>, {}, {}, <<DataCell(<<"1">>), DataCell(<<"d">>), DataCell(<<"u">>)>>),
    El("TR", <<>>, {}, {}, <<DataCell(<<"2">>), DataCell(<<"d">>), DataCell(<<"u">>)>>),
    \* two cells only
    El("TR", <<>>, {}, {}, <<DataCell(<<"3">>), DataCell(<<"d">>)>>),
    \* two cells, the second holds a table of one cell
    El("TR", <<>>, {}, {},
       <<DataCell(<<"4">>),
         El("TD", <<>>, {}, {},
            <<El("TABLE", <<>>, {}, {},
                 <<El("TBODY", <<>>, {}, {},
                      <<El("TR", <<>>, {}, {}, <<DataCell(<<"x">>)>>)>>)>>)>>)>>),
    \* one cell that holds a paragraph
    El("TR", <<>>, {}, {}, <<El("TD", <<>>, {}, {}, <<Para(<<"p">>)>>)>>),
    \* a heading cell and a text cell
    El("TR", <<>>, {}, {},
       <<El("TD", <<>>, {}, {}, <<El("H2", <<>>, {}, {}, <<Tx(<<"k">>)>>)>>),
         DataCell(<<"a">>)>>) }
KindChoices ==
  { El("BODY", <<>>, container, {},
       <<El("TABLE", <<>>, cls, at, <<El("TBODY", <<>>, {}, {}, rows)>>)>>) :
      container \in {{}, {"columnLayout"}},
      cls \in {{}, {"tableview"}, {"wysiwyg-macro"}},
      at \in {{}, {<<"border", <<"0">>>>}},
      rows \in SeqsUpTo(KindRows, MaxKindRows) }

InitKinds ==
  /\ BatchIdle /\ CleanIdle /\ WalkIdle
  /\ tDoc \in KindChoices
  /\ tOut = <<>>
  /\ tpc = "in"
SpecKinds == InitKinds /\ [][NextTable]_vars

\* The data rows of a rendered history table: its lines after the heading, the
\* header row and the separator row.
HistoryDataLines(md) == SubSeq(TableLines(md), 4, Len(TableLines(md)))
\* The rows of the table that have at least three cells, in source order.
RowsOfThree(doc, p) == SelectSeq(TableRows(doc, p), LAMBDA r : Len(RowCells(doc, r)) >= 3)
RenderedHistory == tpc = "out" /\ TableKind(tDoc, TheTable) = "History"

\* C11: the History renderer writes no output row for a row of fewer than 3
\* cells and exactly one for every row of 3 or more cells, in source order:
\* the data rows of the output are the rows of 3 or more cells, one line each,
\* each line starting with the text of its row's first cell.
C11_HistoryRowFilter ==
  RenderedHistory =>
    /\ Len(HistoryDataLines(tOut)) = Len(RowsOfThree(tDoc, TheTable))
    /\ \A i \in 1..Len(HistoryDataLines(tOut)) :
         i <= Len(RowsOfThree(tDoc, TheTable)) =>
           StartsWith(HistoryDataLines(tOut)[i],
                      <<"|", " ">> \o Trim(TextAt(tDoc, RowCells(tDoc, RowsOfThree(tDoc, TheTable)[i])[1]))
                                   \o <<" ", "|">>)


\* What each of the four renderers writes for the table of the document.
ByHistory == processHistoryTable(tDoc, TheTable, {TheTable}).md
ByLayout == processLayoutTableContent(tDoc, TheTable, {TheTable}, MainContentRoot).md
BySections == processTableAsSections(tDoc, TheTable, {TheTable}, MainContentRoot).md
ByStandard == processStandardTable(tDoc, TheTable, {TheTable}).md

\* C12: the first test that a table satisfies, in the order History, Layout,
\* ComplexSections, decides its renderer, and a table that satisfies none is
\* rendered as Standard: the output of processTable is the output of that one
\* renderer, also when the table satisfies later tests as well.
C12_FirstMatchWins ==
  tpc = "out" =>
    tOut = IF isHistoryTable(tDoc, TheTable) THEN ByHistory
           ELSE IF isLayoutTable(tDoc, TheTable) THEN ByLayout
           ELSE IF isComplexTable(tDoc, TheTable) THEN BySections
           ELSE ByStandard
\* A table that satisfies the History test, the Layout test and the
\* ComplexSections test has been rendered, by the History renderer and not as
\* the other renderers would have.
C12_HistoryOverLayout ==
  /\ tpc = "out"
  /\ isHistoryTable(tDoc, TheTable) /\ isLayoutTable(tDoc, TheTable)
  /\ isComplexTable(tDoc, TheTable)
  /\ tOut = ByHistory /\ tOut # ByLayout /\ tOut # BySections /\ tOut # ByStandard


\* The three grounds for calling a table a layout table.
BlockTags == {"DIV", "TABLE", "UL", "OL", "P"}
\* (a) border="0", or no border attribute and no border style, in a layout,
\* column, section or panel container, with block content in the first cell.
LayoutByContainer(doc, p) ==
  /\ \/ Attr(At(doc, p), "border") = <<"0">>
     \/ ~HasAttr(At(doc, p), "border") /\ Attr(At(doc, p), "border-style") = <<"n", "o", "n", "e">>
  /\ HasClosest(doc, p, LAMBDA a :
       \E c \in {"contentLayout2", "columnLayout", "section", "panelContent"} :
         HasClass(At(doc, a), c))
  /\ Query(doc, p, LAMBDA d : UpperTagIs(At(doc, d), "TD")) # NoNode
  /\ Query(doc, Query(doc, p, LAMBDA d : UpperTagIs(At(doc, d), "TD")),
           LAMBDA d : At(doc, d).tag \in BlockTags \cup HeadingTags) # NoNode
\* (b) one row of one cell, and the cell holds block content.
LayoutBySingleCell(doc, p) ==
  /\ Len(QueryAll(doc, p, LAMBDA d : UpperTagIs(At(doc, d), "TR"))) = 1
  /\ Len(QueryAll(doc, p, LAMBDA d : UpperTagIs(At(doc, d), "TD"))) = 1
  /\ Query(doc, p, LAMBDA d : At(doc, d).tag \in BlockTags \cup HeadingTags) # NoNode
\* (c) the table carries a class that tags it as a layout or macro wrapper.
LayoutByTag(doc, p) ==
  \E c \in {"layout", "contentLayoutTable", "layout-table", "wysiwyg-macro"} :
    HasClass(At(doc, p), c)

\* C19: a table is classified Layout only on one of the grounds (a), (b), (c);
\* border="0" alone does not make a table a layout table.
C19_LayoutOnlyIf ==
  (tpc = "out" /\ TableKind(tDoc, TheTable) = "Layout") =>
    \/ LayoutByContainer(tDoc, TheTable)
    \/ LayoutBySingleCell(tDoc, TheTable)
    \/ LayoutByTag(tDoc, TheTable)


\* ---------------------------------------------------- heading specification
\* processHeader and processLink called on a heading and on a link to it, in
\* any order, at most MaxResolves calls in all, on one processed set or, after
\* NewConversion, on a new one.  gDoc is the document as the calls have left
\* it, gLog what each call resolved: the heading's id before and after the
\* call, the slug, and whether the call resolved one.
TheHeading == <<1>>
TheLink == <<2>>
HeaderKids ==
  { <<>>,
    <<Tx(<<"!">>)>>,
    <<Tx(<<"S">>)>>,
    <<Tx(<<"A", " ", "b">>)>>,
    <<Tx(<<"M", "y", " ", "S", "e", "c", "t", "i", "o", "n">>)>>,
    <<El("B", <<>>, {}, {}, <<Tx(<<"x">>)>>), Tx(<<"y">>)>> }
HeaderDocuments ==
  { El("BODY", <<>>, {}, {},
       <<El("H3", id, {}, {}, kids),
         El("A", <<>>, {}, {<<"href", <<"#", "s">>>>}, text)>>) :
      id \in {<<>>, <<"s">>},
      kids \in HeaderKids,
      text \in {<<>>, <<Tx(<<"j">>)>>} }

InitHeader ==
  /\ BatchIdle /\ CleanIdle /\ TableIdle
  /\ gDoc \in HeaderDocuments
  /\ gProcessed = {}
  /\ gMarkdown = <<>>
  /\ gLog = <<>>
  /\ gChild = 0
  /\ gpc = "header"
  /\ gFirst = NoRun

\* One call of processHeader on the heading.
HeaderStep ==
  /\ gpc = "header"
  /\ Len(gLog) < MaxResolves
  /\ LET Apply(r) ==
           /\ gDoc' = SetId(gDoc, TheHeading, r.id)
           /\ gProcessed' = r.pe
           /\ gMarkdown' = gMarkdown \o r.md
           /\ gLog' = Append(gLog, [p |-> TheHeading, ev |-> "header",
                                    before |-> At(gDoc, TheHeading).id, after |-> r.id,
                                    slug |-> r.slug, resolved |-> r.resolved])
     IN Apply(processHeader(gDoc, TheHeading, gProcessed, MainContentRoot))
  /\ UNCHANGED <<gChild, gpc, gFirst>>
  /\ UNCHANGED <<batchVars, cleanVars, tableVars>>

\* One call of processLink on the link.  Its target, when there is one, is the
\* heading.
LinkStep ==
  /\ gpc = "header"
  /\ Len(gLog) < MaxResolves
  /\ LET raw == Attr(At(gDoc, TheLink), "href")
         target == GetElementById(gDoc, SubSeq(raw, 2, Len(raw)))
         Apply(r, kids, href, id) ==
           /\ gDoc' = IF target = NoNode \/ kids.err THEN gDoc ELSE SetId(gDoc, target, id)
           /\ gProcessed' = r.pe
           /\ gMarkdown' = gMarkdown \o r.md
           /\ gLog' = Append(gLog, [p |-> target, ev |-> "link",
                                    before |-> IF target = NoNode THEN <<>>
                                               ELSE At(gDoc, target).id,
                                    after |-> IF target = NoNode THEN <<>> ELSE id,
                                    slug |-> SubSeq(href, 2, Len(href)),
                                    resolved |-> href # raw])
         Resolve(r, kids) ==
           Apply(r, kids, LinkHref(gDoc, raw, Trim(kids.md), target),
                 IF target = NoNode THEN <<>>
                 ELSE LinkTargetId(gDoc, raw, Trim(kids.md), target))
     IN Resolve(processLink(gDoc, TheLink, gProcessed, MainContentRoot),
                LinkChildren(gDoc, ChildNodes(gDoc, TheLink), 1, gProcessed, MainContentRoot))
  /\ UNCHANGED <<gChild, gpc, gFirst>>
  /\ UNCHANGED <<batchVars, cleanVars, tableVars>>

\* The next conversion of the document starts: a new processed set.
NewConversion ==
  /\ gpc = "header"
  /\ gProcessed # {}
  /\ gProcessed' = {}
  /\ UNCHANGED <<gDoc, gMarkdown, gLog, gChild, gpc, gFirst>>
  /\ UNCHANGED <<batchVars, cleanVars, tableVars>>

NextHeader == HeaderStep \/ LinkStep \/ NewConversion
SpecHeader == InitHeader /\ [][NextHeader]_vars

\* C14: every resolution of the slug of the heading returns the same value,
\* and a call that finds the heading with an id leaves it with that id.
C14_SlugStable ==
  /\ \A i, j \in DOMAIN gLog :
       (gLog[i].ev = gLog[j].ev /\ gLog[i].resolved /\ gLog[j].resolved) =>
         gLog[i].slug = gLog[j].slug
  /\ \A i \in DOMAIN gLog : gLog[i].before # <<>> => gLog[i].after = gLog[i].before
\* The heading had no id, a first call of processHeader gave it one, and a
\* second call resolved its slug again.
C14_ResolvedTwice ==
  /\ Len(gLog) = 2
  /\ gLog[1].ev = "header" /\ gLog[1].resolved
  /\ gLog[1].before = <<>> /\ gLog[1].after # <<>>
  /\ gLog[2].ev = "header" /\ gLog[2].resolved
  /\ gLog[2].before = gLog[1].after /\ gLog[2].slug = gLog[1].slug

\* C27: a link whose target is the heading is written with the anchor the
\* heading carries: the fragment of its href is the heading's id, and the id
\* every call of processHeader has written after '{#' is that fragment, whether
\* the id was generated from the heading's text or was there before.
C27_AnchorAgreement ==
  \A i \in DOMAIN gLog :
    (gLog[i].ev = "link" /\ gLog[i].p = TheHeading) =>
      /\ gLog[i].slug = At(gDoc, TheHeading).id
      /\ \A j \in DOMAIN gLog :
           (gLog[j].ev = "header" /\ gLog[j].resolved) => gLog[j].after = gLog[i].slug


\* ---------------------------------------------------- element specification
\* generateMarkdown on documents whose main content holds headings, links to
\* a heading, unordered lists and elements the dispatcher has no case for.
Heading(tag, id, text) == El(tag, id, {}, {}, IF text = <<>> THEN <<>> ELSE <<Tx(text)>>)
HeadingChoices ==
  { Heading("H2", <<>>, <<"G", "e", "t", "t", "i", "n", "g", " ", "S", "t", "a", "r", "t", "e", "d">>),
    Heading("H3", <<"s", "e", "c", "1">>, <<"M", "y", " ", "S", "e", "c", "t", "i", "o", "n">>),
    Heading("H1", <<>>, <<>>),
    Heading("H4", <<>>, <<" ">>) }
LinkChoices ==
  { El("A", <<>>, {}, {<<"href", <<"#", "s", "e", "c", "1">>>>}, text) : text \in {<<>>, <<Tx(<<"j", "u", "m", "p">>)>>} }
Li(cls, kids) == El("LI", <<>>, cls, {}, kids)
Br == El("BR", <<>>, {}, {}, <<>>)
LiChoices ==
  { Li({}, <<Tx(<<"A">>)>>),
    Li({}, <<Tx(<<"B">>), Br, Tx(<<"C">>)>>),
    Li({}, <<Tx(<<"B">>), Br, Br, Tx(<<" ", "C">>)>>),
    Li({}, <<Tx(<<" ", "D", " ">>)>>),
    Li({"hidden"}, <<Tx(<<"h">>)>>) }
ListChoices == { El("UL", <<>>, {}, {}, lis) : lis \in SeqsUpTo(LiChoices, MaxItems) }
UnknownChoices ==
  { El("SECTION", <<>>, {}, {},
       <<Tx(<<"t">>), El("ARTICLE", <<>>, {}, {}, <<Tx(<<"u">>)>>),
         El("ARTICLE", <<>>, {"hidden"}, {}, <<Tx(<<"n">>)>>)>>),
    El("SECTION", <<>>, {}, {}, <<>>),
    El("ARTICLE", <<>>, {}, {},
       <<El("SECTION", <<>>, {}, {}, <<El("NAV", <<>>, {}, {}, <<Tx(<<"v">>)>>), Tx(<<" ", "w">>)>>),
         El("BUTTON", <<>>, {}, {}, <<Tx(<<"b">>)>>), Tx(<<"e">>)>>),
    El("SECTION", <<>>, {}, {}, <<Para(<<"x">>), Tx(<<"y">>)>>),
    El("SECTION", <<>>, {}, {},
       <<El("UL", <<>>, {}, {}, <<Tx(<<"z">>), Li({}, <<Tx(<<"i">>)>>)>>)>>) }
ElementBlocks ==
  { <<b>> : b \in HeadingChoices \cup LinkChoices \cup ListChoices \cup UnknownChoices }
    \cup { <<h, l>> : h \in HeadingChoices, l \in LinkChoices }
    \cup { <<l, h>> : l \in LinkChoices, h \in HeadingChoices }
ElementDocuments ==
  { El("BODY", <<>>, {}, {}, <<El("DIV", <<"m", "a", "i", "n", "-", "c", "o", "n", "t", "e", "n", "t">>, {}, {}, blocks)>>) :
      blocks \in ElementBlocks }

InitElement ==
  /\ BatchIdle /\ CleanIdle /\ TableIdle
  /\ gDoc \in ElementDocuments
  /\ gProcessed = {}
  /\ gMarkdown = <<>>
  /\ gLog = <<>>
  /\ gChild = 0
  /\ gpc = "start"
  /\ gFirst = NoRun
SpecElement == InitElement /\ [][Next]_vars

\* The child nodes of the main content, and the one the loop of
\* generateMarkdown is about to hand to the dispatcher.
MainBlocks == ChildNodes(gDoc, findMainContent(gDoc))
AtBlock ==
  /\ gpc = "main"
  /\ gChild \in 1..Len(MainBlocks)
  /\ MainBlocks[gChild] \notin gProcessed
Block == At(gDoc, MainBlocks[gChild])
\* What the step appends to the Markdown: the fragment the dispatcher returns.
Fragment == SubSeq(gMarkdown', Len(gMarkdown) + 1, Len(gMarkdown'))
Hashes(tag) == [i \in 1..HeadingLevel(tag) |-> "#"]

\* C16: a heading of level L with non-empty trimmed text T and no id is
\* written as L '#', a space, T, ' {#slug}' with the slug of T, and a blank
\* line; <h2>Getting Started</h2> gives '## Getting Started {#getting-started}'
\* and two newlines.
C16_HeadingAnchor ==
  [][(AtBlock /\ Block.tag \in HeadingTags /\ Block.id = <<>>
        /\ Trim(TextContent(Block)) # <<>>) =>
       /\ Fragment = Hashes(Block.tag) \o <<" ">> \o Trim(TextContent(Block))
                     \o <<" ", "{", "#">> \o slugify(Trim(TextContent(Block)))
                     \o <<"}", "\n", "\n">>
       /\ Block = Heading("H2", <<>>, <<"G", "e", "t", "t", "i", "n", "g", " ", "S", "t", "a", "r", "t", "e", "d">>) =>
            Fragment = <<"#", "#", " ", "G", "e", "t", "t", "i", "n", "g", " ", "S", "t", "a", "r", "t", "e", "d", " ", "{", "#", "g", "e", "t", "t", "i", "n", "g", "-", "s", "t", "a", "r", "t", "e", "d", "}", "\n", "\n">>]_vars

\* C20: a heading whose text is empty after trimming contributes the empty
\* string, at every level.
C20_EmptyHeadingSuppressed ==
  [][(AtBlock /\ Block.tag \in HeadingTags /\ Trim(TextContent(Block)) = <<>>) =>
       Fragment = <<>>]_vars

\* C15: a link to a fragment whose target is a heading is written with the
\* href '#' and the slug of the heading's text, wherever the heading is;
\* <a href="#sec1">jump</a> with <h3 id="sec1">My Section</h3> gives
\* [jump](#my-section).
LinkTarget(link) ==
  GetElementById(gDoc, SubSeq(Attr(link, "href"), 2, Len(Attr(link, "href"))))
C15_LinkToHeadingSlug ==
  [][(AtBlock /\ Block.tag = "A" /\ StartsWith(Attr(Block, "href"), <<"#">>)
        /\ LinkTarget(Block) # NoNode
        /\ At(gDoc, LinkTarget(Block)).tag \in HeadingTags) =>
       /\ EndsWith(Fragment, <<"]", "(", "#">>
                    \o slugify(Trim(TextAt(gDoc, LinkTarget(Block)))) \o <<")">>)
       /\ (TextContent(Block) = <<"j", "u", "m", "p">>
             /\ TextAt(gDoc, LinkTarget(Block)) = <<"M", "y", " ", "S", "e", "c", "t", "i", "o", "n">>) =>
            Fragment = <<"[", "j", "u", "m", "p", "]", "(", "#", "m", "y", "-", "s", "e", "c", "t", "i", "o", "n", ")">>]_vars


\* The text of a list item as its markup gives it: the text nodes in order, a
\* line break for every BR, nothing for an item the drop filter drops.
PlainItem(li) == \A k \in DOMAIN li.kids : li.kids[k].nt = 3 \/ li.kids[k].tag = "BR"
ItemText(li) ==
  IF shouldBeIgnored(li, MainContentRoot) THEN <<>>
  ELSE Trim(Concat([k \in DOMAIN li.kids |->
                     IF li.kids[k].nt = 3 THEN li.kids[k].text ELSE <<"\n">>]))
\* An item: '- ' and its first line, then every further line, indented by two
\* spaces unless it is blank.
BulletItem(lines) ==
  <<"-", " ">> \o lines[1] \o <<"\n">>
    \o Concat([k \in 1..(Len(lines) - 1) |->
                IF Trim(lines[k + 1]) = <<>> THEN <<"\n">>
                ELSE <<" ", " ">> \o lines[k + 1] \o <<"\n">>])
ExampleList ==
  El("UL", <<>>, {}, {}, <<Li({}, <<Tx(<<"A">>)>>), Li({}, <<Tx(<<"B">>), Br, Tx(<<"C">>)>>)>>)
\* C17: every li child of an unordered list gives one item that starts with
\* '- ', the further non-blank lines of the item are indented by two spaces,
\* and the list ends with exactly one blank line;
\* <ul><li>A</li><li>B<br>C</li></ul> gives '- A', '- B', '  C' and an empty
\* line.
C17_BulletList ==
  [][(AtBlock /\ Block.tag = "UL"
        /\ \A k \in DOMAIN Block.kids : Block.kids[k].tag = "LI" /\ PlainItem(Block.kids[k])) =>
       /\ Fragment = Concat([k \in DOMAIN Block.kids |->
                              BulletItem(Split(ItemText(Block.kids[k]), "\n"))])
                     \o <<"\n">>
       /\ Block.kids # <<>> =>
            /\ EndsWith(Fragment, <<"\n", "\n">>)
            /\ ~EndsWith(Fragment, <<"\n", "\n", "\n">>)
       /\ Block = ExampleList => Fragment = <<"-", " ", "A", "\n", "-", " ", "B", "\n", " ", " ", "C", "\n", "\n">>]_vars
\* The list of the example has been written, with its continuation line.
C17_ExampleWritten ==
  /\ gpc = "main" /\ gChild = 2
  /\ At(gDoc, MainBlocks[1]) = ExampleList
  /\ EndsWith(gMarkdown, <<"-", " ", "A", "\n", "-", " ", "B", "\n", " ", " ", "C", "\n", "\n">>)


\* The tags the switch of the dispatcher has a case for.
HandledTags ==
  {"DIV", "TABLE", "P", "UL", "OL", "LI", "A", "IMG", "STRONG", "B", "EM", "I", "CODE",
   "PRE", "BR", "HR", "SPAN"} \cup HeadingTags
\* An element the dispatcher handles by its default case: no case for its tag,
\* and the drop filter keeps it.
PassedThrough(n) ==
  n.nt = 1 /\ n.tag \notin HandledTags /\ ~shouldBeIgnored(n, MainContentRoot)
\* The text nodes below the block, and the elements on the way from the block
\* to a node below it.
TextNodesBelow(b) ==
  { d \in { Descendants(gDoc, b)[k] : k \in DOMAIN Descendants(gDoc, b) } : At(gDoc, d).nt = 3 }
Between(b, d) == { SubSeq(d, 1, k) : k \in (Len(b) + 1)..(Len(d) - 1) }
\* The text of a subtree without what the drop filter drops.
RECURSIVE KeptText(_), KeptTextOfNodes(_, _)
KeptText(n) ==
  IF n.nt = 3 THEN n.text
  ELSE IF shouldBeIgnored(n, MainContentRoot) THEN <<>>
  ELSE KeptTextOfNodes(n.kids, 1)
KeptTextOfNodes(ks, i) ==
  IF i > Len(ks) THEN <<>> ELSE KeptText(ks[i]) \o KeptTextOfNodes(ks, i + 1)

\* C18 as stated: for an element without a case of its own that the drop
\* filter keeps, the text of every descendant text node that is not dropped
\* appears in what the dispatcher returns.
C18_NoTextLost ==
  [][(AtBlock /\ PassedThrough(Block)) =>
       \A d \in TextNodesBelow(MainBlocks[gChild]) :
         (\A a \in Between(MainBlocks[gChild], d) : ~shouldBeIgnored(At(gDoc, a), MainContentRoot))
           => Includes(Fragment, Trim(At(gDoc, d).text))]_vars
\* C18, amended: when every element below it is without a case of its own as
\* well, the dispatcher returns the text of the descendant text nodes in
\* document order, without the text below dropped elements.
C18_PassThrough ==
  [][(AtBlock /\ PassedThrough(Block)
        /\ \A d \in { Descendants(gDoc, MainBlocks[gChild])[k] :
                        k \in DOMAIN Descendants(gDoc, MainBlocks[gChild]) } :
             At(gDoc, d).nt = 1 => At(gDoc, d).tag \notin HandledTags) =>
       Fragment = KeptText(Block)]_vars
\* An element without a case of its own has been written: text of its own,
\* text of a nested element of the same kind, and none of a dropped one.
C18_NestedWritten ==
  /\ gpc = "main" /\ gChild = 2
  /\ At(gDoc, MainBlocks[1]).tag = "ARTICLE"
  /\ EndsWith(gMarkdown, <<"v", " ", "w", "e">>)


\* ------------------------------------------------------ image specification
\* processImage on an image with at most MaxSiblings siblings before it and
\* as many after it, in a paragraph or in a div.
Img(at) == El("IMG", <<>>, {}, at, <<>>)
SiblingChoices ==
  { Tx(<<" ">>), Tx(<<"t">>), Br, El("B", <<>>, {}, {}, <<Tx(<<"x">>)>>) }
ImageChoices ==
  { El("BODY", <<>>, {}, {},
       <<El(parent, <<>>, {}, {}, before \o <<Img(at)>> \o after)>>) :
      parent \in {"P", "DIV"},
      at \in {{<<"src", <<"u">>>>}, {<<"src", <<"/", "u">>>>, <<"title", <<"k">>>>}},
      before \in SeqsUpTo(SiblingChoices, MaxSiblings),
      after \in SeqsUpTo(SiblingChoices, MaxSiblings) }
\* The image of an image specification's document.
TheImage == Query(tDoc, <<>>, LAMBDA d : TagIs(At(tDoc, d), "IMG"))

InitImage ==
  /\ BatchIdle /\ CleanIdle /\ WalkIdle
  /\ tDoc \in ImageChoices
  /\ tOut = <<>>
  /\ tpc = "in"
\* processImage, as the dispatcher calls it.
RenderImage ==
  /\ tpc = "in"
  /\ tOut' = processImage(tDoc, TheImage)
  /\ tpc' = "out"
  /\ UNCHANGED tDoc
  /\ UNCHANGED <<batchVars, cleanVars, walkVars>>
NextImage == RenderImage
SpecImage == InitImage /\ [][NextImage]_vars

\* The siblings of the image.
ImageSiblings ==
  { At(tDoc, s) : s \in { ChildNodes(tDoc, <<1>>)[k] : k \in DOMAIN ChildNodes(tDoc, <<1>>) }
                          \ {TheImage} }
\* C21: an image in a paragraph is written with two newlines after it exactly
\* when every sibling is a br element or a text node of white space only.
C21_IsolatedImage ==
  (tpc = "out" /\ At(tDoc, <<1>>).tag = "P") =>
    (EndsWith(tOut, <<"\n", "\n">>)
       <=> \A s \in ImageSiblings : s.tag = "BR" \/ (s.nt = 3 /\ Trim(s.text) = <<>>))


\* ------------------------------------------------------- cell specification
\* processTableCellContent on a cell that holds at most MaxCellKids of: a list
\* of at most MaxListItems items, a nested table, a panel, preformatted text,
\* plain text.
ListOf(tag, n) == El(tag, <<>>, {}, {}, [k \in 1..n |-> Li({}, <<Tx(<<"i">>)>>)])
CellContentChoices ==
  { ListOf("UL", n) : n \in 0..MaxListItems }
    \cup { ListOf("OL", 3),
           El("TABLE", <<>>, {}, {}, <<El("TR", <<>>, {}, {}, <<DataCell(<<"n">>)>>)>>),
           El("DIV", <<>>, {"panel"}, {}, <<Tx(<<"p">>)>>),
           El("DIV", <<>>, {"confluence-information-macro"}, {}, <<ListOf("UL", 1)>>),
           El("PRE", <<>>, {}, {}, <<Tx(<<"c">>)>>),
           Tx(<<"t">>) }
CellDocuments ==
  { El("BODY", <<>>, {}, {},
       <<El("TABLE", <<>>, {}, {},
            <<El("TBODY", <<>>, {}, {},
                 <<El("TR", <<>>, {}, {}, <<El("TD", <<>>, {}, {}, kids)>>)>>)>>)>>) :
      kids \in SeqsUpTo(CellContentChoices, MaxCellKids) }
\* The cell of a cell specification's document.
TheCell == <<1, 1, 1, 1>>

InitCell ==
  /\ BatchIdle /\ CleanIdle /\ WalkIdle
  /\ tDoc \in CellDocuments
  /\ tOut = <<>>
  /\ tpc = "in"
\* processTableCellContent, as the Standard renderer calls it for a cell.
RenderCell ==
  /\ tpc = "in"
  /\ tOut' = processTableCellContent(tDoc, TheCell)
  /\ tpc' = "out"
  /\ UNCHANGED tDoc
  /\ UNCHANGED <<batchVars, cleanVars, walkVars>>
NextCell == RenderCell
SpecCell == InitCell /\ [][NextCell]_vars

\* The lists, nested tables and panels the cell holds, in document order.
CellLists == QueryAll(tDoc, TheCell, LAMBDA d : At(tDoc, d).tag \in {"UL", "OL"})
CellTables == QueryAll(tDoc, TheCell, LAMBDA d : At(tDoc, d).tag = "TABLE")
CellPanels ==
  QueryAll(tDoc, TheCell, LAMBDA d :
    HasClass(At(tDoc, d), "panel") \/ HasClass(At(tDoc, d), "confluence-information-macro"))
ItemsOfFirstList == QueryAll(tDoc, CellLists[1], LAMBDA d : At(tDoc, d).tag = "LI")
LinkCell(text) ==
  El("TD", <<>>, {}, {}, <<El("A", <<>>, {}, {<<"href", <<"u">>>>}, <<Tx(text)>>)>>)
NameCell(text) ==
  El("TD", <<>>, {}, {},
     <<El("SPAN", <<>>, {"page-history-contributor-name"}, {},
          <<El("A", <<>>, {}, {<<"href", <<"w">>>>}, <<Tx(text)>>)>>)>>)
VersionCells ==
  { DataCell(<<"1">>), DataCell(<<"a", "|", "b">>), LinkCell(<<"v", "\n", "1">>),
    LinkCell(<<"a", "|", "b">>) }
PublishedCells == { DataCell(<<"d">>), DataCell(<<"d", "\n", "e">>) }
ChangedByCells == { DataCell(<<"u">>), DataCell(<<"u", "|", "v">>), NameCell(<<"n", "|", "m">>) }
CommentCells == { <<>>, <<DataCell(<<"c">>)>>, <<DataCell(<<"c", "|", "d">>)>> }
HistoryRowChoices ==
  { El("TR", <<>>, {}, {}, <<v, d, u>> \o c) :
      v \in VersionCells, d \in PublishedCells, u \in ChangedByCells, c \in CommentCells }
HistoryDocuments ==
  { El("BODY", <<>>, {}, {},
       <<El("TABLE", <<>>, {"tableview"}, {}, <<El("TBODY", <<>>, {}, {}, rows)>>)>>) :
      rows \in SeqsUpTo(HistoryRowChoices, MaxHistoryRows) }
InitHistory ==
  /\ BatchIdle /\ CleanIdle /\ WalkIdle
  /\ tDoc \in HistoryDocuments
  /\ tOut = <<>>
  /\ tpc = "in"
SpecHistory == InitHistory /\ [][NextTable]_vars

\* C23: every row the History renderer writes is one line of exactly four
\* pipe-delimited cells: in every cell, a Version cell written as a link and
\* a Changed-By cell written from a user name included, newlines have become
\* spaces and pipes are escaped.
C23_FourEscapedCells ==
  RenderedHistory =>
    /\ Len(HistoryDataLines(tOut)) = Len(RowsOfThree(tDoc, TheTable))
    /\ \A i \in 1..Len(HistoryDataLines(tOut)) : CellsOf(HistoryDataLines(tOut)[i]) = 4


\* ------------------------------------------------------- slug specification
\* slugify applied to every heading text over SlugChars of at most MaxSlugLen
\* characters.  EAcute is the letter e with an acute accent (U+00E9), one
\* character that is neither \w nor \s.
EAcute == "E_ACUTE"
SlugChars == {"A", "b", "1", " ", "-", "_", "!", EAcute}
InitSlug ==
  /\ BatchIdle /\ WalkIdle /\ TableIdle
  /\ cIn \in StrsUpTo(SlugChars, MaxSlugLen)
  /\ cOut = <<>>
  /\ cOut2 = <<>>
  /\ cpc = "in"
Slugify ==
  /\ cpc = "in"
  /\ cOut' = slugify(cIn)
  /\ cpc' = "slug"
  /\ UNCHANGED <<cIn, cOut2>>
  /\ UNCHANGED <<batchVars, walkVars, tableVars>>
NextSlug == Slugify
SpecSlug == InitSlug /\ [][NextSlug]_vars

\* C24: the slug of a heading text consists of lower-case letters, digits and
\* single hyphens only (no accented letter is left), neither starts nor ends
\* with a hyphen, and is never empty.
C24_SlugShape ==
  (cpc = "slug" /\ Trim(cIn) # <<>>) =>
    /\ cOut # <<>>
    /\ \A i \in 1..Len(cOut) : cOut[i] \in LowerChars \cup DigitChars \cup {"-"}
    /\ \A i \in 1..(Len(cOut) - 1) : ~(cOut[i] = "-" /\ cOut[i + 1] = "-")
    /\ cOut # <<>> => (cOut[1] # "-" /\ cOut[Len(cOut)] # "-")


\* ----------------------------------------------- table-repair specification
\* fixBrokenTables applied to every text of at most MaxTableLines lines, each a
\* table row of one or two cells, a delimiter row of one or two columns, a
\* blank line or a line of text.
RepairLines ==
  { <<"|", "a", "|">>, <<"|", "a", "|", "b", "|">>, <<"|", "-", "-", "-", "|">>, <<"|", "-", "-", "-", "|", "-", "-", "-", "|">>, <<>>, <<"t">> }
InitRepair ==
  /\ BatchIdle /\ WalkIdle /\ TableIdle
  /\ cIn \in { Join(lines, <<NL>>) : lines \in SeqsUpTo(RepairLines, MaxTableLines) \ {<<>>} }
  /\ cOut = <<>>
  /\ cOut2 = <<>>
  /\ cpc = "in"
FixTables ==
  /\ cpc = "in"
  /\ cOut' = fixBrokenTables(cIn)
  /\ cpc' = "fixed"
  /\ UNCHANGED <<cIn, cOut2>>
  /\ UNCHANGED <<batchVars, walkVars, tableVars>>
NextRepair == FixTables
SpecRepair == InitRepair /\ [][NextRepair]_vars

\* The lines of the repaired text; a pipe-table line starts with a pipe, a
\* delimiter row is a pipe-table line of pipes, hyphens, colons and blanks.
RepairedLines == Split(cOut, NL)
PipeLine(line) == StartsWith(Trim(line), <<"|">>)
DelimiterRow(line) ==
  /\ PipeLine(line)
  /\ \A i \in 1..Len(line) : line[i] \in {"|", "-", ":", " "}
  /\ \E i \in 1..Len(line) : line[i] = "-"
\* Line a starts a maximal block of pipe-table lines, and line j is in it.
BlockStart(a) == PipeLine(RepairedLines[a]) /\ (a = 1 \/ ~PipeLine(RepairedLines[a - 1]))
InBlock(a, j) == a <= j /\ \A k \in a..j : PipeLine(RepairedLines[k])
\* C25: after the table-repair pass every maximal block of pipe-table lines
\* has exactly one delimiter row, directly after its first row, and every row
\* of the block has as many cells as the first row.
C25_BlocksRepaired ==
  cpc = "fixed" =>
    \A a \in 1..Len(RepairedLines) :
      BlockStart(a) =>
        /\ ~DelimiterRow(RepairedLines[a])
        /\ a + 1 <= Len(RepairedLines) /\ DelimiterRow(RepairedLines[a + 1])
        /\ \A j \in (a + 2)..Len(RepairedLines) :
             InBlock(a, j) => ~DelimiterRow(RepairedLines[j])
        /\ \A j \in a..Len(RepairedLines) :
             InBlock(a, j) => CellsOf(RepairedLines[j]) = CellsOf(RepairedLines[a])


\* --------------------------- convert-html-to-md-improved.js: breadcrumb pass
\* The last pass of cleanupMarkdown in convert-html-to-md-improved.js.
\* line.match(/^\d+\.\s+\[.*\]\(.*\.md\)$/)
IsBreadcrumbLine(line) ==
  MatchFirst(Cat(<<Sos, Rep(Cls(DigitChars), 1, Inf), Chr("."), Rep(Ws, 1, Inf), Chr("["),
                   Rep(Dot, 0, Inf), Chr("]"), Chr("("), Rep(Dot, 0, Inf),
                   Lit(<<".", "m", "d">>), Chr(")"), Eos>>), line) # NoMatch
\* line.replace(/^\d+\.\s+/, '- ')
BulletLine(line) ==
  ReplaceFirst(Cat(<<Sos, Rep(Cls(DigitChars), 1, Inf), Chr("."), Rep(Ws, 1, Inf)>>),
               <<"-", " ">>, line)
\* The loop over the lines: what the iterations from i on push to cleanedLines.
RECURSIVE BreadcrumbLines(_, _, _)
BreadcrumbLines(lines, i, inBreadcrumbs) ==
  IF i > Len(lines) THEN <<>>
  ELSE IF IsBreadcrumbLine(lines[i])
  THEN (IF ~inBreadcrumbs THEN <<<<"#", "#", " ", "N", "a", "v", "i", "g", "a", "t", "i", "o", "n">>, <<>>>> ELSE <<>>)
       \o <<BulletLine(lines[i])>> \o BreadcrumbLines(lines, i + 1, TRUE)
  ELSE IF inBreadcrumbs /\ Trim(lines[i]) = <<>>
  THEN <<<<>>>> \o BreadcrumbLines(lines, i + 1, FALSE)
  ELSE IF ~inBreadcrumbs
  THEN <<lines[i]>> \o BreadcrumbLines(lines, i + 1, FALSE)
  ELSE BreadcrumbLines(lines, i + 1, inBreadcrumbs)
\* cleanedLines.join('\n').trim() + '\n'
BreadcrumbPass(markdown) ==
  Trim(Join(BreadcrumbLines(Split(markdown, NL), 1, FALSE), <<NL>>)) \o <<NL>>

\* ------------------------------------------------- breadcrumb specification
\* The breadcrumb pass applied to every text of at most MaxNavLines lines, each
\* a numbered link to an .md file, a numbered item without a link, a blank
\* line or a line of text.
NavEntries == { <<"1", ".", " ", "[", "a", "]", "(", "b", ".", "m", "d", ")">>, <<"2", ".", " ", "[", "c", "]", "(", "d", ".", "m", "d", ")">> }
NavLines == NavEntries \cup { <<>>, <<"t">>, <<"1", ".", " ", "x">> }
InitNav ==
  /\ BatchIdle /\ WalkIdle /\ TableIdle
  /\ cIn \in { Join(lines, <<NL>>) : lines \in SeqsUpTo(NavLines, MaxNavLines) \ {<<>>} }
  /\ cOut = <<>>
  /\ cOut2 = <<>>
  /\ cpc = "in"
NavigationPass ==
  /\ cpc = "in"
  /\ cOut' = BreadcrumbPass(cIn)
  /\ cpc' = "nav"
  /\ UNCHANGED <<cIn, cOut2>>
  /\ UNCHANGED <<batchVars, walkVars, tableVars>>
NextNav == NavigationPass
SpecNav == InitNav /\ [][NextNav]_vars

\* The number of breadcrumb entries the text starts with, and the text with
\* only that leading block rewritten: a '## Navigation' heading, a blank line
\* and the entries as bullets, then every other line as it was.
RECURSIVE LeadingEntries(_, _)
LeadingEntries(lines, i) ==
  IF i <= Len(lines) /\ lines[i] \in NavEntries THEN 1 + LeadingEntries(lines, i + 1) ELSE 0
OnlyLeadingRewritten(lines, k) ==
  (IF k > 0 THEN <<<<"#", "#", " ", "N", "a", "v", "i", "g", "a", "t", "i", "o", "n">>, <<>>>> ELSE <<>>)
    \o [i \in 1..k |-> <<"-", " ">> \o SubSeq(lines[i], 4, Len(lines[i]))]
    \o SubSeq(lines, k + 1, Len(lines))
\* C26: the breadcrumb pass rewrites only the block of numbered links the
\* document starts with: every other line is written unchanged and in order,
\* none is deleted, and a later numbered list of .md links stays a numbered
\* list without a '## Navigation' heading (the text as a whole is trimmed and
\* ends with one newline).
C26_OnlyLeadingBlock ==
  cpc = "nav" =>
    cOut = Trim(Join(OnlyLeadingRewritten(Split(cIn, NL), LeadingEntries(Split(cIn, NL), 1)),
                     <<NL>>)) \o <<NL>>


\* ------------------------------------------------- output names and paths
\* sanitizeFilename (utilities.js)
sanitizeFilename(filename) ==
  IF filename = <<>> THEN <<>>
  ELSE Trim(ReplaceAll(Rep(Chr("-"), 1, Inf), <<"-">>,
              ReplaceAll(Rep(Ws, 1, Inf), <<"-">>,
                ReplaceAll(Cls({"/", "\\", "?", "%", "*", ":", "|", "\"", "<", ">"}), <<"-">>,
                           filename))))
\* stripHtmlTags (lib/utils.js)
stripHtmlTags(str) ==
  IF str = <<>> THEN <<>>
  ELSE ReplaceAll(Cat(<<Chr("<"), Rep(NotCls({">"}), 1, Inf), Chr(">")>>), <<>>, str)
\* decodeEntities (lib/utils.js): the named entities, in the order of the code.
\* The last replacement, of the numeric references &#n;, is left out: no text
\* of the specifications below holds one.
decodeEntities(str) ==
  IF str = <<>> THEN <<>>
  ELSE ReplaceAll(LitI(<<"&", "#", "x", "2", "F", ";">>), <<"/">>,
         ReplaceAll(Lit(<<"&", "#", "3", "9", ";">>), <<"'">>,
           ReplaceAll(Lit(<<"&", "q", "u", "o", "t", ";">>), <<"\"">>,
             ReplaceAll(Lit(<<"&", "g", "t", ";">>), <<">">>,
               ReplaceAll(Lit(<<"&", "l", "t", ";">>), <<"<">>,
                 ReplaceAll(Lit(<<"&", "a", "m", "p", ";">>), <<"&">>, str))))))
\* normalize('NFKD') and the removal of the combining marks U+0300..U+036F: an
\* accented letter becomes its base letter.
StripDiacritics(str) == [i \in 1..Len(str) |-> IF str[i] = EAcute THEN "e" ELSE str[i]]
\* sanitizeForPath (lib/utils.js); null is written <<>>.
sanitizeForPath(name) ==
  LET OrSection(slug) == IF slug = <<>> THEN <<"s", "e", "c", "t", "i", "o", "n">> ELSE slug
  IN IF name = <<>> THEN <<>>
     ELSE OrSection(
            ReplaceAll(Alt(Cat(<<Sos, Chr("-")>>), Cat(<<Chr("-"), Eos>>)), <<>>,
              ReplaceAll(Rep(Chr("-"), 1, Inf), <<"-">>,
                ReplaceAll(Rep(NotCls(UpperChars \cup LowerChars \cup DigitChars), 1, Inf),
                           <<"-">>,
                  ReplaceAll(Chr("&"), <<"a", "n", "d">>,
                             StripDiacritics(decodeEntities(stripHtmlTags(name))))))))
\* deriveIdentifierSlug (lib/utils.js).  baseName is the name of the file
\* without its extension.
deriveIdentifierSlug(baseName) ==
  LET numericMatch ==
        MatchFirst(Cat(<<Alt(Sos, Cls({"_", "-"})), Grp(1, Rep(Cls(DigitChars), 3, Inf)), Eos>>),
                   baseName)
      FromMatch(numericSlug) ==
        IF numericSlug # <<>> THEN numericSlug ELSE sanitizeForPath(baseName)
  IN IF baseName = <<>> THEN <<>>
     ELSE IF numericMatch # NoMatch /\ CapText(baseName, numericMatch, 1) # <<>>
     THEN FromMatch(sanitizeForPath(CapText(baseName, numericMatch, 1)))
     ELSE sanitizeForPath(baseName)

\* ensureUniqueSlug (lib/utils.js): the candidates, in the order they are tried.
SlugCandidates(preferredSlug, identifierSlug) ==
  LET candidates ==
        (IF preferredSlug # <<>> THEN <<preferredSlug>> ELSE <<>>)
        \o (IF identifierSlug # <<>> /\ identifierSlug # preferredSlug
            THEN <<identifierSlug>> ELSE <<>>)
        \o (IF /\ preferredSlug # <<>> /\ identifierSlug # <<>>
               /\ ~EndsWith(preferredSlug, identifierSlug)
            THEN <<preferredSlug \o <<"-">> \o identifierSlug>> ELSE <<>>)
  IN IF candidates = <<>> THEN <<<<"n", "o", "t", "e">>>> ELSE candidates
\* ensureUniqueSlug: the while loop, from index on.  The loop ends: usedSlugs is
\* finite and every index gives another candidate.
RECURSIVE NumberedSlug(_, _, _)
NumberedSlug(base, index, usedSlugs) ==
  IF base \o <<"-">> \o NumberToString(index) \in usedSlugs
  THEN NumberedSlug(base, index + 1, usedSlugs)
  ELSE base \o <<"-">> \o NumberToString(index)
ensureUniqueSlugFirstNumber(preferredSlug, identifierSlug, usedSlugs) ==
  LET candidates == SlugCandidates(preferredSlug, identifierSlug)
      Added(slug) == [slug |-> slug, usedSlugs |-> usedSlugs \cup {slug}]
  IN IF \E i \in DOMAIN candidates : candidates[i] \notin usedSlugs
     THEN Added(candidates[CHOOSE i \in DOMAIN candidates :
                             /\ candidates[i] \notin usedSlugs
                             /\ \A j \in 1..(i - 1) : candidates[j] \in usedSlugs])
     ELSE Added(candidates[1] \o <<"-", "2">>)
\* ensureUniqueSlug: the slug returned and usedSlugs as the call leaves it.
ensureUniqueSlug(preferredSlug, identifierSlug, usedSlugs) ==
  LET candidates == SlugCandidates(preferredSlug, identifierSlug)
      Added(slug) == [slug |-> slug, usedSlugs |-> usedSlugs \cup {slug}]
  IN IF \E i \in DOMAIN candidates : candidates[i] \notin usedSlugs
     THEN Added(candidates[CHOOSE i \in DOMAIN candidates :
                             /\ candidates[i] \notin usedSlugs
                             /\ \A j \in 1..(i - 1) : candidates[j] \in usedSlugs])
     ELSE Added(NumberedSlug(candidates[1], 2, usedSlugs))
\* path.join of the segments of a directory and a file name: empty segments
\* are left out.  A path is the sequence of its segments below the output
\* directory.
PathJoin(segments, fileName) ==
  SelectSeq(segments, LAMBDA seg : seg # <<>>) \o <<fileName>>


\* ------------------------------------------------ unique-slug specification
\* At most MaxSlugCalls calls of ensureUniqueSlug on one usedSlugs set, which
\* starts empty (turndown.js: const usedSlugs = new Set()).  A slug handed in
\* is null (written <<>>), 'a' or 'a-2'.
SlugInputs == { <<>>, <<"a">>, <<"a", "-", "2">> }
InitUnique ==
  /\ CleanIdle /\ WalkIdle /\ TableIdle
  /\ bTree = <<>>
  /\ bStack = <<>>
  /\ bFiles = <<>>
  /\ bPost = {}
  /\ bpc = "slugs"
EnsureUniqueSlug ==
  /\ bpc = "slugs"
  /\ Len(bStack) < MaxSlugCalls
  /\ \E preferredSlug \in SlugInputs, identifierSlug \in SlugInputs :
       LET Apply(r) ==
             /\ bPost' = r.usedSlugs
             /\ bStack' = Append(bStack, [preferredSlug |-> preferredSlug,
                                          identifierSlug |-> identifierSlug,
                                          slug |-> r.slug])
       IN Apply(ensureUniqueSlug(preferredSlug, identifierSlug, bPost))
  /\ UNCHANGED <<bTree, bFiles, bpc>>
  /\ UNCHANGED <<cleanVars, walkVars, tableVars>>
NextUnique == EnsureUniqueSlug
SpecUnique == InitUnique /\ [][NextUnique]_vars

\* C30: every call of ensureUniqueSlug returns a slug that is not empty and was
\* not in usedSlugs before the call, adds that slug and nothing else to
\* usedSlugs and removes nothing, and the slugs returned so far are pairwise
\* distinct.
C30_UniqueSlugs ==
  [][LET slug == bStack'[Len(bStack')].slug
     IN /\ slug # <<>>
        /\ slug \notin bPost
        /\ bPost' = bPost \cup {slug}
        /\ \A i, j \in DOMAIN bStack' : i # j => bStack'[i].slug # bStack'[j].slug]_vars
\* Three calls with the same slug: the second went into the numbering loop and
\* the third went round it twice.
C30_NumberedTwice ==
  /\ Len(bStack) = 3
  /\ \A i \in 1..3 : bStack[i].preferredSlug = <<"a">> /\ bStack[i].identifierSlug = <<"a">>
  /\ bStack[2].slug = <<"a", "-", "2">>
  /\ bStack[3].slug = <<"a", "-", "3">>


\* ------------------------------------------------ output-path specification
\* A batch of at most MaxFiles HTML files, converted by one of the three batch
\* drivers: _processAnalyzedFiles (modules/markdown-generator.js), the older
\* processDirectory, and convertHtmlToMarkdown (lib/turndown.js).  A file has
\* the directory it lies in below the input directory, its name without the
\* extension, the texts of its breadcrumbs, its title, and whether it parsed
\* (document is null when it did not).  No two files of a batch have the same
\* directory and name.
FileChoices ==
  [dir : {<<>>, <<<<"d">>>>},
   name : {<<"p">>, <<"q">>},
   crumbs : {<<>>, <<<<"a">>, <<"b">>>>, <<<<"c">>, <<"b">>>>, <<<<"a">>, <<"x", " ", "y">>>>},
   title : {<<"T">>, <<"U">>},
   document : BOOLEAN]
Batches ==
  { files \in SeqsUpTo(FileChoices, MaxFiles) :
      /\ files # <<>>
      /\ \A i, j \in DOMAIN files :
           i # j => <<files[i].dir, files[i].name>> # <<files[j].dir, files[j].name>> }
InitPaths ==
  /\ CleanIdle /\ WalkIdle /\ TableIdle
  /\ bTree \in Batches
  /\ bStack = <<>>
  /\ bFiles = <<>>
  /\ bPost = {}
  /\ bpc \in {"analyzed", "directory", "plan"}
\* fs.writeFile(path, ...) for input file i.
Written(files, path, i) ==
  [p \in DOMAIN files \cup {path} |->
     IF p = path THEN Append(IF path \in DOMAIN files THEN files[path] ELSE <<>>, i)
     ELSE files[p]]
\* The directory the two breadcrumb-driven loops choose for a file.
BreadcrumbDir(file) ==
  IF Len(file.crumbs) > 0
  THEN [k \in 1..(Len(file.crumbs) - 1) |-> sanitizeFilename(file.crumbs[k])]
  ELSE file.dir
\* One iteration of the loop of _processAnalyzedFiles.
ProcessAnalyzedFile ==
  /\ bpc = "analyzed"
  /\ Len(bStack) < Len(bTree)
  /\ LET i == Len(bStack) + 1
         file == bTree[i]
         lastCrumbText == file.crumbs[Len(file.crumbs)]
         baseName == IF Len(file.crumbs) > 0 /\ Trim(lastCrumbText) # <<>>
                     THEN sanitizeFilename(lastCrumbText) ELSE file.name
         outputFilePath == PathJoin(BreadcrumbDir(file), baseName \o <<".", "m", "d">>)
     IN IF ~file.document
        THEN /\ bStack' = Append(bStack, [file |-> i, outputPath |-> <<>>])
             /\ UNCHANGED bFiles
        ELSE /\ bStack' = Append(bStack, [file |-> i, outputPath |-> outputFilePath])
             /\ bFiles' = Written(bFiles, outputFilePath, i)
  /\ UNCHANGED <<bTree, bPost, bpc>>
  /\ UNCHANGED <<cleanVars, walkVars, tableVars>>
\* One iteration of the second loop of the older processDirectory.
ProcessDirectoryFile ==
  /\ bpc = "directory"
  /\ Len(bStack) < Len(bTree)
  /\ LET i == Len(bStack) + 1
         file == bTree[i]
         outputFilePath == PathJoin(BreadcrumbDir(file), file.name \o <<".", "m", "d">>)
     IN /\ bStack' = Append(bStack, [file |-> i, outputPath |-> outputFilePath])
        /\ bFiles' = Written(bFiles, outputFilePath, i)
  /\ UNCHANGED <<bTree, bPost, bpc>>
  /\ UNCHANGED <<cleanVars, walkVars, tableVars>>
\* convertHtmlToMarkdown reads the files of one directory: readdir(htmlDir).
HtmlFiles(tree) == SelectSeq([i \in 1..Len(tree) |-> i], LAMBDA i : tree[i].dir = <<>>)
\* One iteration of the first loop of convertHtmlToMarkdown: the slug and the
\* output path of a file.
PlanFile ==
  /\ bpc = "plan"
  /\ Len(bStack) < Len(HtmlFiles(bTree))
  /\ LET i == HtmlFiles(bTree)[Len(bStack) + 1]
         file == bTree[i]
         breadcrumbSlugs == [k \in 1..Len(file.crumbs) |-> sanitizeForPath(file.crumbs[k])]
         Apply(r) ==
           /\ bPost' = r.usedSlugs
           /\ bStack' = Append(bStack, [file |-> i,
                                        outputPath |-> PathJoin(breadcrumbSlugs,
                                                                r.slug \o <<".", "m", "d">>)])
     IN Apply(ensureUniqueSlug(sanitizeForPath(file.title), deriveIdentifierSlug(file.name),
                               bPost))
  /\ bpc' = IF Len(bStack') = Len(HtmlFiles(bTree)) THEN "write" ELSE "plan"
  /\ UNCHANGED <<bTree, bFiles>>
  /\ UNCHANGED <<cleanVars, walkVars, tableVars>>
\* One iteration of the second loop of convertHtmlToMarkdown, in which the
\* conversion of the file does not throw: the file is written to its path.
WriteFile ==
  /\ bpc = "write"
  /\ bStack # <<>>
  /\ bFiles' = Written(bFiles, Head(bStack).outputPath, Head(bStack).file)
  /\ bStack' = Tail(bStack)
  /\ UNCHANGED <<bTree, bPost, bpc>>
  /\ UNCHANGED <<cleanVars, walkVars, tableVars>>
NextPaths == ProcessAnalyzedFile \/ ProcessDirectoryFile \/ PlanFile \/ WriteFile
SpecPaths == InitPaths /\ [][NextPaths]_vars

\* C29: no two input files of a batch are written to the same output path:
\* every path has been written for one input file at most.
C29_NoOverwrite ==
  \A p \in DOMAIN bFiles : Len(bFiles[p]) <= 1

====
